---- MODULE Spec2Model ----
(***************************************************************************)
(* Moorhen: drone lifecycle and sequencer clocks of the three engine       *)
(* variants.                                                               *)
(*                                                                         *)
(*   v2.0.0 engine   src/Moorhen_v2.0.0/static/js/synth.js (MoorhenSynth)  *)
(*   v2.0.0 UI       src/Moorhen_v2.0.0/static/js/ui.js    (sequencer)     *)
(*   HimalayanSynth  src/unnamed/part_000                  (prefix h_/H_)  *)
(*   part_002 engine src/unnamed/part_002                  (prefix p_/P_)  *)
(*                                                                         *)
(* Real numbers are carried as integers in thousandths (0.3 is 300).       *)
(* Timers are explicit: a setTimeout/setInterval registration is an entry  *)
(* of a queue or set, and its callback is an action of its own.            *)
(***************************************************************************)
EXTENDS Integers, Sequences, FiniteSets, TLC

VARIABLES
    \* ---- v2.0.0 engine (synth.js) ----
    droneActive,        \* this.droneActive
    droneOscillators,   \* this.droneOscillators: sequence of oscillator ids
    droneBaseNote,      \* this.droneBaseNote
    droneTargetVolume,  \* this.droneTargetVolume (thousandths)
    droneGainTarget,    \* target of this.droneGain.gain (thousandths)
    pitchBend,          \* this.pitchBend (semitones)
    oscNodes,           \* every oscillator startDrone ever created, by id
    teardownTimers,     \* pending setTimeout callbacks of stopDrone, FIFO
    lastCall,           \* the last v2.0.0 engine operation that ran
    \* ---- HimalayanSynth (part_000) drone ----
    h_isInitialized,    \* this.isInitialized
    h_audioContexts,    \* number of AudioContext objects constructed
    h_initSuspended,    \* init calls suspended at "await this.createReverb()"
    h_droneVoices,      \* this.droneVoices: sequence of voice ids
    h_voices,           \* every voice createDroneVoice ever created, by id
    h_timers,           \* pending staggered setTimeout callbacks of startDrone
    h_starts,           \* startDrone calls that registered timers
    h_stopped,          \* stopDrone has run since the last startDrone that registered timers
    h_lastCall,         \* the last HimalayanSynth drone operation that ran
    \* ---- v2.0.0 UI sequencer (ui.js, the "sequencer" object) ----
    seq_playing,        \* sequencer.playing
    seq_currentStep,    \* sequencer.currentStep
    seq_tempo,          \* sequencer.tempo
    seq_randomness,     \* sequencer.randomness (thousandths)
    seq_intervalId,     \* sequencer.intervalId (null is 0)
    seq_patterns,       \* sequencer.patterns[instrument][step]: None or 0..6
    seq_dom,            \* per step element: its 'active' class, its select's value
    seq_timers,         \* live setInterval registrations: [id, period]
    seq_played,         \* argument of the last playStep since the last start
    seq_triggered,      \* playInstrument calls of the last playStep
    seq_lastEdit,       \* the last pattern edit: handler, cell, the cell before it
    \* ---- HimalayanSynth (part_000) sequencer ----
    h_seqIsPlaying,     \* this.sequencer.isPlaying
    h_seqCurrentStep,   \* this.sequencer.currentStep
    h_seqBpm,           \* this.sequencer.bpm
    h_seqRandomness,    \* this.sequencer.randomness (thousandths)
    h_seqIntervalId,    \* this.sequencer.intervalId (null is 0)
    h_seqTimers,        \* live setInterval registrations: [id, period]
    h_seqPlayed,        \* step read by the last playSequencerStep since start
    h_seqTicked,        \* a timer tick has played a step since the last start
    \* ---- part_002 engine sequencer ----
    p_seqIsPlaying,     \* this.sequencer.isPlaying
    p_seqCurrentStep,   \* this.sequencer.currentStep
    p_seqBpm,           \* this.sequencer.bpm
    p_seqRandomness,    \* this.sequencer.randomness (thousandths)
    p_seqIntervalId,    \* this.sequencer.intervalId (null is 0)
    p_seqTimers,        \* live setInterval registrations: [id, period]
    p_seqReported,      \* index last passed to onStepChange since start
    p_seqReadOther,     \* the last tick read some instrument's data from a
                        \* step other than the pointer
    \* ---- HimalayanSynth (part_000) sequencer pattern ----
    h_seqSteps,         \* this.sequencer[instrument][step]: {noteIndex, active}
    h_lastEdit,         \* the last pattern edit: method, cell, the cell before it
    \* ---- v2.0.0 engine (synth.js) ambient textures ----
    windNode,           \* this.windNode: null or the id of its buffer source
    windGainNode,       \* this.windGainNode: <<>> while undefined, else <<gain>>
    windGraphs,         \* wind graphs (source, filter, gain) startWind has built
    waterNode,          \* this.waterNode
    waterGainNode,      \* this.waterGainNode
    waterGraphs,        \* water graphs startWater has built
    tex_lastCall,       \* the last texture operation that ran, and its argument
    \* ---- voice triggers of the three engines ----
    voiceCount,         \* v2.0.0: voices playInstrument has triggered
    p_isInitialized,    \* part_002: this.isInitialized
    p_audioContexts,    \* part_002: AudioContext objects constructed
    p_initSuspended,    \* part_002: init calls suspended at "await this.createReverb()"
    p_windNode,         \* part_002: this.windNode is set
    p_windVolume,       \* part_002: this.windVolume (thousandths)
    trig,               \* the last trigger or setter call of this group
    instrumentVolumes,  \* v2.0.0: this.instrumentVolumes (thousandths)
    lastVoice,          \* v2.0.0: the voice playInstrument triggered last
    \* HimalayanSynth keyboard voices (part_000)
    h_pitchBend,        \* this.expression.pitchBend (thousandths)
    h_activeVoices,     \* this.activeVoices: keyCode -> <<voice>>, <<>> when absent
    h_voiceCall,        \* the last keyboard or pitch-bend call
    \* v2.0.0 UI pitch wheel (ui.js)
    isDragging,         \* setupPitchWheel: let isDragging
    midiBendSince,      \* a MIDI pitch-bend message came after the last release
    midiBend14,         \* the 14-bit value behind pitchBend, None if the wheel set it
    \* expression pads: filter in Hz, reverb in thousandths
    expr_v2,            \* v2.0.0: filterNode.frequency and reverbGain targets
    expr_h,             \* HimalayanSynth: expression.filterCutoff / reverbMix
    expr_p,             \* part_002: filterFreq / reverbMix
    pad,                \* the last pad event: which UI, and the position
    droneBtnActive,     \* v2.0.0 UI: the drone button carries the class 'active'
    lastNoteOn          \* v2.0.0 UI: the last MIDI note-on handled

droneVars == <<droneActive, droneOscillators, droneBaseNote, droneTargetVolume,
               droneGainTarget, pitchBend, oscNodes, teardownTimers, lastCall>>
hDroneVars == <<h_isInitialized, h_audioContexts, h_initSuspended, h_droneVoices,
                h_voices, h_timers, h_starts, h_stopped, h_lastCall>>
uiSeqVars == <<seq_playing, seq_currentStep, seq_tempo, seq_randomness,
               seq_intervalId, seq_patterns, seq_dom, seq_timers,
               seq_played, seq_triggered, seq_lastEdit>>
hSeqVars == <<h_seqIsPlaying, h_seqCurrentStep, h_seqBpm, h_seqRandomness,
              h_seqIntervalId, h_seqTimers, h_seqPlayed, h_seqTicked>>
pSeqVars == <<p_seqIsPlaying, p_seqCurrentStep, p_seqBpm, p_seqRandomness,
              p_seqIntervalId, p_seqTimers, p_seqReported, p_seqReadOther>>
hEditVars == <<h_seqSteps, h_lastEdit>>
texVars == <<windNode, windGainNode, windGraphs, waterNode, waterGainNode,
             waterGraphs, tex_lastCall>>
trigVars == <<instrumentVolumes, lastVoice,
              voiceCount, p_isInitialized, p_audioContexts, p_initSuspended,
              p_windNode, p_windVolume, trig>>
hVoiceVars == <<h_pitchBend, h_activeVoices, h_voiceCall>>
wheelVars == <<isDragging, midiBendSince, midiBend14>>
padVars == <<expr_v2, expr_h, expr_p, pad>>
btnVars == <<droneBtnActive>>
midiVars == <<lastNoteOn>>
vars == <<midiVars, btnVars, padVars, wheelVars, droneVars, hDroneVars, uiSeqVars, hSeqVars, pSeqVars, hEditVars, hVoiceVars,
          texVars, trigVars>>

\* what an operation of one component leaves alone: every other component
exceptDrone == <<midiVars, btnVars, padVars, wheelVars, hVoiceVars, hDroneVars, uiSeqVars, hSeqVars, pSeqVars, hEditVars,
      texVars, trigVars>>
exceptHDrone == <<midiVars, btnVars, padVars, wheelVars, hVoiceVars, droneVars, uiSeqVars, hSeqVars, pSeqVars, hEditVars,
      texVars, trigVars>>
exceptUiSeq == <<midiVars, btnVars, padVars, wheelVars, hVoiceVars, droneVars, hDroneVars, hSeqVars, pSeqVars, hEditVars,
      texVars, trigVars>>
exceptHSeq == <<midiVars, btnVars, padVars, wheelVars, hVoiceVars, droneVars, hDroneVars, uiSeqVars, pSeqVars, hEditVars,
      texVars, trigVars>>
exceptPSeq == <<midiVars, btnVars, padVars, wheelVars, hVoiceVars, droneVars, hDroneVars, uiSeqVars, hSeqVars, hEditVars,
      texVars, trigVars>>
exceptHEdit == <<midiVars, btnVars, padVars, wheelVars, hVoiceVars, droneVars, hDroneVars, uiSeqVars, hSeqVars, pSeqVars, texVars,
                 trigVars>>
exceptTex == <<midiVars, btnVars, padVars, wheelVars, hVoiceVars, droneVars, hDroneVars, uiSeqVars, hSeqVars, pSeqVars, hEditVars,
               trigVars>>
exceptHVoice == <<midiVars, btnVars, padVars, wheelVars, droneVars, hDroneVars, uiSeqVars, hSeqVars, pSeqVars, hEditVars,
                  texVars, trigVars>>
exceptWheel == <<midiVars, btnVars, padVars, hVoiceVars, hDroneVars, uiSeqVars, hSeqVars, pSeqVars, hEditVars,
                 texVars, trigVars>>
exceptPad == <<midiVars, btnVars, wheelVars, droneVars, hVoiceVars, hDroneVars, uiSeqVars, hSeqVars, pSeqVars,
               hEditVars, texVars, trigVars>>
exceptDroneBtn == <<midiVars, padVars, wheelVars, hVoiceVars, hDroneVars, uiSeqVars, hSeqVars,
                    pSeqVars, hEditVars, texVars, trigVars>>
exceptMidi == <<btnVars, padVars, wheelVars, droneVars, hVoiceVars, hDroneVars,
                uiSeqVars, hSeqVars, pSeqVars, hEditVars, texVars>>
exceptTrig == <<midiVars, btnVars, padVars, wheelVars, hVoiceVars, droneVars, hDroneVars, uiSeqVars, hSeqVars, pSeqVars, hEditVars,
                texVars>>

----------------------------------------------------------------------------
(* Bounds *)
MaxBanks == 2        \* banks startDrone may create in one run (v2.0.0)
MaxHStarts == 2      \* HimalayanSynth startDrone calls that register timers
MaxInits == 2        \* HimalayanSynth init calls that construct a context
MaxGraphs == 2       \* graphs startWind / startWater may build, per texture
MaxVoices == 2       \* voices playInstrument may trigger (v2.0.0)
MaxPInits == 2       \* part_002 init calls that construct a context

(* Inputs the UI can deliver *)
BaseNotes == {0, 7}              \* drone base slider, semitones
Volumes == {0, 300, 800}         \* drone volume slider, thousandths
Bends == {-2, 0, 2}              \* pitch wheel, semitones
TexVolumes == {0, 200, 500, 1000} \* wind / water sliders, thousandths

----------------------------------------------------------------------------
(* Helpers *)
Range(s) == {s[i] : i \in 1..Len(s)}

\* JavaScript null in a handle or node reference: handles are integers > 0
null == 0
\* JavaScript null / '' in a pattern cell or a select; "no step yet" in an observer
None == -1

----------------------------------------------------------------------------
(* v2.0.0 engine: drone (synth.js) *)

\* frequencies = [baseFreq, baseFreq*2, baseFreq*3, baseFreq*1.5]; ratios doubled
droneRatios2 == <<2, 4, 6, 3>>
\* gains = [0.4, 0.2, 0.1, 0.15]
droneGains == <<400, 200, 100, 150>>

\* One oscillator of a bank as startDrone builds it: osc -> oscGain -> droneGain.
\* tone is the semitone offset from C2 its frequency is computed from; detuned
\* records that the random +-0.25 Hz offset of creation is still in place.
NewOsc(i, baseNote) ==
    [state |-> "running", ratio2 |-> droneRatios2[i], tone |-> baseNote,
     detuned |-> TRUE, gain |-> droneGains[i], out |-> "droneGain", stops |-> 0]

RunningOscs == {o \in 1..Len(oscNodes) : oscNodes[o].state = "running"}

\* target of the gain node named by an oscillator's output
GainTarget(node) == IF node = "droneGain" THEN droneGainTarget ELSE 0

DroneInit ==
    /\ droneActive = FALSE
    /\ droneOscillators = <<>>
    /\ droneBaseNote = 0
    /\ droneTargetVolume = 300
    /\ droneGainTarget = 0
    /\ pitchBend = 0
    /\ oscNodes = <<>>
    /\ teardownTimers = <<>>
    /\ lastCall = [name |-> "init", wasActive |-> FALSE, fading |-> FALSE,
                   created |-> 0, scheduled |-> FALSE, ret |-> FALSE, arg |-> 0,
                   threw |-> FALSE]

Call(name, created, scheduled, ret) ==
    [name |-> name, wasActive |-> droneActive, fading |-> teardownTimers # <<>>,
     created |-> created, scheduled |-> scheduled, ret |-> ret, arg |-> 0,
     threw |-> FALSE]

\* startDrone without its "if (this.droneActive) return"
StartDroneBody_NoGuard(baseNote, volume) ==
    /\ droneActive' = TRUE
    /\ droneBaseNote' = baseNote
    /\ droneTargetVolume' = volume
    /\ oscNodes' = oscNodes \o [i \in 1..4 |-> NewOsc(i, baseNote)]
    /\ droneOscillators' = droneOscillators \o [i \in 1..4 |-> Len(oscNodes) + i]
    /\ droneGainTarget' = volume

\* startDrone that also returns while a stopped bank is still fading out
StartDroneBody_WaitsForFade(baseNote, volume) ==
    IF droneActive \/ teardownTimers # <<>>
    THEN UNCHANGED <<droneActive, droneOscillators, droneBaseNote,
                     droneTargetVolume, droneGainTarget, oscNodes>>
    ELSE StartDroneBody_NoGuard(baseNote, volume)

\* body of startDrone, as a relation on the drone fields
StartDroneBody(baseNote, volume) ==
    IF droneActive
    THEN UNCHANGED <<droneActive, droneOscillators, droneBaseNote,
                     droneTargetVolume, droneGainTarget, oscNodes>>
    ELSE /\ droneActive' = TRUE
         /\ droneBaseNote' = baseNote
         /\ droneTargetVolume' = volume
         /\ oscNodes' = oscNodes \o [i \in 1..4 |-> NewOsc(i, baseNote)]
         /\ droneOscillators' = droneOscillators \o
                                  [i \in 1..4 |-> Len(oscNodes) + i]
         /\ droneGainTarget' = volume

\* body of stopDrone
StopDroneBody ==
    IF ~droneActive
    THEN UNCHANGED <<droneActive, droneOscillators, droneGainTarget,
                     teardownTimers>>
    ELSE /\ droneActive' = FALSE
         /\ droneGainTarget' = 0
         /\ teardownTimers' = Append(teardownTimers, droneOscillators)
         /\ droneOscillators' = <<>>

\* a bank can still be created within the bound
CanCreate == droneActive \/ Len(oscNodes) < 4 * MaxBanks

StartDrone(baseNote, volume) ==
    /\ CanCreate
    /\ StartDroneBody(baseNote, volume)
    /\ UNCHANGED <<pitchBend, teardownTimers>>
    /\ UNCHANGED exceptDrone
    /\ lastCall' = Call("startDrone", Len(oscNodes') - Len(oscNodes), FALSE, FALSE)

StopDrone ==
    /\ StopDroneBody
    /\ UNCHANGED <<droneBaseNote, droneTargetVolume, pitchBend, oscNodes>>
    /\ UNCHANGED exceptDrone
    /\ lastCall' = Call("stopDrone", 0,
                        Len(teardownTimers') > Len(teardownTimers), FALSE)

ToggleDrone(baseNote, volume) ==
    /\ CanCreate
    /\ IF droneActive
       THEN /\ StopDroneBody
            /\ UNCHANGED <<droneBaseNote, droneTargetVolume, oscNodes>>
       ELSE /\ StartDroneBody(baseNote, volume)
            /\ UNCHANGED teardownTimers
    /\ UNCHANGED pitchBend
    /\ UNCHANGED exceptDrone
    /\ lastCall' = Call("toggleDrone", Len(oscNodes') - Len(oscNodes),
                        Len(teardownTimers') > Len(teardownTimers), droneActive')

\* a setDroneVolume that ramps the shared gain whether or not the drone is on
SetDroneVolume_AlwaysRamps(volume) ==
    /\ droneTargetVolume' = volume
    /\ droneGainTarget' = volume
    /\ UNCHANGED <<droneActive, droneOscillators, droneBaseNote, pitchBend,
                   oscNodes, teardownTimers>>
    /\ UNCHANGED exceptDrone
    /\ lastCall' = [Call("setDroneVolume", 0, FALSE, FALSE) EXCEPT !.arg = volume]

SetDroneVolume(volume) ==
    /\ droneTargetVolume' = volume
    /\ droneGainTarget' = IF droneActive THEN volume ELSE droneGainTarget
    /\ UNCHANGED <<droneActive, droneOscillators, droneBaseNote, pitchBend,
                   oscNodes, teardownTimers>>
    /\ UNCHANGED exceptDrone
    /\ lastCall' = [Call("setDroneVolume", 0, FALSE, FALSE) EXCEPT !.arg = volume]

\* updateDroneFrequencies: retarget the current bank, by position
updateDroneFrequencies(base, bend) ==
    [o \in 1..Len(oscNodes) |->
        IF \E i \in 1..Len(droneOscillators) : droneOscillators[i] = o /\ i <= 4
        THEN LET i == CHOOSE i \in 1..Len(droneOscillators) : droneOscillators[i] = o
             IN [oscNodes[o] EXCEPT !.tone = base + bend,
                                    !.ratio2 = droneRatios2[i],
                                    !.detuned = FALSE]
        ELSE oscNodes[o]]

SetDroneBase(semitones) ==
    /\ droneBaseNote' = semitones
    /\ oscNodes' = IF droneActive
                   THEN updateDroneFrequencies(semitones, pitchBend)
                   ELSE oscNodes
    /\ UNCHANGED <<droneActive, droneOscillators, droneTargetVolume,
                   droneGainTarget, pitchBend, teardownTimers>>
    /\ UNCHANGED exceptDrone
    /\ lastCall' = Call("setDroneBase", 0, FALSE, FALSE)

\* a setPitchBend that only stores the bend
SetPitchBend_StoreOnly(semitones) ==
    /\ pitchBend' = semitones
    /\ UNCHANGED <<droneActive, droneOscillators, droneBaseNote, oscNodes,
                   droneTargetVolume, droneGainTarget, teardownTimers>>
    /\ UNCHANGED exceptDrone
    /\ lastCall' = [Call("setPitchBend", 0, FALSE, FALSE) EXCEPT !.arg = semitones]

setPitchBend(semitones) ==
    /\ pitchBend' = semitones
    /\ oscNodes' = IF droneActive
                   THEN updateDroneFrequencies(droneBaseNote, semitones)
                   ELSE oscNodes
    /\ UNCHANGED <<droneActive, droneOscillators, droneBaseNote,
                   droneTargetVolume, droneGainTarget, teardownTimers>>
    /\ lastCall' = [Call("setPitchBend", 0, FALSE, FALSE) EXCEPT !.arg = semitones]

\* synth.setPitchBend(semitones) called on the engine
SetPitchBend(semitones) ==
    /\ setPitchBend(semitones)
    /\ UNCHANGED exceptDrone

\* osc.stop() on one oscillator. It throws when the platform no longer has
\* the oscillator playing (InvalidStateError), so after the call the
\* oscillator is not playing whether it returned or threw.
oscStop(node) == [node EXCEPT !.state = "stopped", !.stops = @ + 1]

\* a teardown callback that reads this.droneOscillators when it fires
\* instead of the copy taken by stopDrone
StopCaptured_CurrentBank(captured, failing) ==
    [nodes |-> [o \in 1..Len(oscNodes) |->
                  IF o \in Range(droneOscillators)
                  THEN oscStop(oscNodes[o]) ELSE oscNodes[o]],
     threw |-> FALSE]

\* a teardown callback with one try around the whole loop: the first failing
\* stop() ends the loop
StopCaptured_OneTry(captured, failing) ==
    [nodes |-> [o \in 1..Len(oscNodes) |->
                  IF \E i \in 1..Len(captured) :
                        captured[i] = o /\ (failing = 0 \/ i <= failing)
                  THEN oscStop(oscNodes[o]) ELSE oscNodes[o]],
     threw |-> FALSE]

\* the setTimeout callback of stopDrone: "try { osc.stop(); } catch(e) {}" on
\* every captured oscillator. failing is the position in the bank whose
\* stop() throws, 0 if none does; the catch is inside the loop, so the loop
\* goes on and nothing is thrown out of the callback.
StopCaptured(captured, failing) ==
    [nodes |-> [o \in 1..Len(oscNodes) |->
                  IF \E i \in 1..Len(captured) : captured[i] = o
                  THEN oscStop(oscNodes[o]) ELSE oscNodes[o]],
     threw |-> FALSE]

TeardownTimer ==
    /\ teardownTimers # <<>>
    /\ \E failing \in 0..Len(Head(teardownTimers)) :
          LET r == StopCaptured(Head(teardownTimers), failing)
          IN /\ oscNodes' = r.nodes
             /\ lastCall' = [Call("teardownTimer", 0, FALSE, FALSE)
                                EXCEPT !.arg = failing, !.threw = r.threw]
    /\ teardownTimers' = Tail(teardownTimers)
    /\ UNCHANGED <<droneActive, droneOscillators, droneBaseNote,
                   droneTargetVolume, droneGainTarget, pitchBend>>
    /\ UNCHANGED exceptDrone

----------------------------------------------------------------------------
(* v2.0.0 engine: ambient textures (synth.js) *)

TexInit ==
    /\ windNode = null
    /\ windGainNode = <<>>
    /\ windGraphs = 0
    /\ waterNode = null
    /\ waterGainNode = <<>>
    /\ waterGraphs = 0
    /\ tex_lastCall = [name |-> "init", volume |-> 0]

\* startWind / startWater: [node, gainNode, graphs] of one texture after the
\* call; the gain starts at gain.value = volume with no ramp scheduled
startTexture(t, volume) ==
    IF t.node # null THEN t
    ELSE [node |-> t.graphs + 1,
          gainNode |-> <<[value |-> volume, target |-> None]>>,
          graphs |-> t.graphs + 1]

\* a volume setter that builds a graph on every positive volume
setTextureVolume_AlwaysStarts(t, volume) ==
    IF volume > 0
    THEN startTexture([t EXCEPT !.node = null], volume)
    ELSE IF t.gainNode # <<>>
         THEN [t EXCEPT !.gainNode = <<[t.gainNode[1] EXCEPT !.target = volume]>>]
         ELSE t

\* setWindVolume / setWaterVolume
setTextureVolume(t, volume) ==
    IF volume > 0 /\ t.node = null
    THEN startTexture(t, volume)
    ELSE IF t.gainNode # <<>>
         THEN [t EXCEPT !.gainNode = <<[t.gainNode[1] EXCEPT !.target = volume]>>]
         ELSE t

Wind == [node |-> windNode, gainNode |-> windGainNode, graphs |-> windGraphs]
Water == [node |-> waterNode, gainNode |-> waterGainNode, graphs |-> waterGraphs]

SetWindVolume(volume) ==
    /\ windGraphs < MaxGraphs
    /\ LET t == setTextureVolume(Wind, volume)
       IN /\ windNode' = t.node
          /\ windGainNode' = t.gainNode
          /\ windGraphs' = t.graphs
    /\ tex_lastCall' = [name |-> "setWindVolume", volume |-> volume]
    /\ UNCHANGED <<waterNode, waterGainNode, waterGraphs>>
    /\ UNCHANGED exceptTex

SetWaterVolume(volume) ==
    /\ waterGraphs < MaxGraphs
    /\ LET t == setTextureVolume(Water, volume)
       IN /\ waterNode' = t.node
          /\ waterGainNode' = t.gainNode
          /\ waterGraphs' = t.graphs
    /\ tex_lastCall' = [name |-> "setWaterVolume", volume |-> volume]
    /\ UNCHANGED <<windNode, windGainNode, windGraphs>>
    /\ UNCHANGED exceptTex

----------------------------------------------------------------------------
(* HimalayanSynth: drone (part_000) *)

\* this.scales.droneRatios = [1, 1.5, 2, 3], doubled
h_droneRatios2 == <<2, 3, 4, 6>>

HDroneInit ==
    /\ h_isInitialized = FALSE
    /\ h_audioContexts = 0
    /\ h_initSuspended = 0
    /\ h_droneVoices = <<>>
    /\ h_voices = <<>>
    /\ h_timers = <<>>
    /\ h_starts = 0
    /\ h_stopped = FALSE
    /\ h_lastCall = [name |-> "new", threw |-> FALSE]

\* init up to "await this.createReverb()": the context exists, the flag is unset
H_InitBegin ==
    /\ h_audioContexts < MaxInits
    /\ IF h_isInitialized
       THEN UNCHANGED <<h_audioContexts, h_initSuspended>>
       ELSE /\ h_audioContexts' = h_audioContexts + 1
            /\ h_initSuspended' = h_initSuspended + 1
    /\ UNCHANGED <<h_isInitialized, h_droneVoices, h_voices, h_timers, h_starts,
                   h_stopped>>
    /\ UNCHANGED exceptHDrone
    /\ h_lastCall' = [name |-> "init", threw |-> FALSE]

\* init after the await: the chain is connected and isInitialized is set
H_InitResume ==
    /\ h_initSuspended > 0
    /\ h_initSuspended' = h_initSuspended - 1
    /\ h_isInitialized' = TRUE
    /\ UNCHANGED <<h_audioContexts, h_droneVoices, h_voices, h_timers, h_starts,
                   h_stopped>>
    /\ UNCHANGED exceptHDrone
    /\ h_lastCall' = [name |-> "initResume", threw |-> FALSE]

\* insert a timer after every pending timer that is due no later (setTimeout order)
RECURSIVE InsertTimer(_, _)
InsertTimer(q, t) ==
    IF q = <<>> THEN <<t>>
    ELSE IF Head(q).due <= t.due THEN <<Head(q)>> \o InsertTimer(Tail(q), t)
    ELSE <<t>> \o q

RECURSIVE InsertTimers(_, _)
InsertTimers(q, ts) ==
    IF ts = <<>> THEN q ELSE InsertTimers(InsertTimer(q, Head(ts)), Tail(ts))

\* startDrone: one setTimeout per ratio, delays 0, 500, 1000, 1500 ms
\* (due counts units of 500 ms from now)
H_StartDroneTimers ==
    InsertTimers(h_timers, [i \in 1..4 |-> [due |-> i - 1, ratio2 |-> h_droneRatios2[i]]])

H_StartDrone ==
    /\ IF ~h_isInitialized \/ Len(h_droneVoices) > 0
       THEN UNCHANGED <<h_timers, h_starts, h_stopped>>
       ELSE /\ h_starts < MaxHStarts
            /\ h_timers' = H_StartDroneTimers
            /\ h_starts' = h_starts + 1
            /\ h_stopped' = FALSE
    /\ UNCHANGED <<h_isInitialized, h_audioContexts, h_initSuspended,
                   h_droneVoices, h_voices>>
    /\ UNCHANGED exceptHDrone
    /\ h_lastCall' = [name |-> "startDrone", threw |-> FALSE]

\* createDroneVoice: 6 detuned oscillators and an LFO, all started, none stopped
createDroneVoice(ratio2) ==
    [ratio2 |-> ratio2, oscillators |-> 6, lfo |-> TRUE, stopScheduled |-> FALSE]

\* a staggered timer of startDrone fires: create the voice and push it
H_DroneTimer ==
    /\ h_timers # <<>>
    /\ Head(h_timers).due = 0
    /\ h_voices' = Append(h_voices, createDroneVoice(Head(h_timers).ratio2))
    /\ h_droneVoices' = Append(h_droneVoices, Len(h_voices) + 1)
    /\ h_timers' = Tail(h_timers)
    /\ UNCHANGED <<h_isInitialized, h_audioContexts, h_initSuspended, h_starts,
                   h_stopped>>
    /\ UNCHANGED exceptHDrone
    /\ h_lastCall' = [name |-> "droneTimer", threw |-> FALSE]

\* 500 ms pass
H_Elapse ==
    /\ \E i \in 1..Len(h_timers) : h_timers[i].due > 0
    /\ h_timers' = [i \in 1..Len(h_timers) |->
                      [h_timers[i] EXCEPT !.due = IF @ > 0 THEN @ - 1 ELSE 0]]
    /\ UNCHANGED <<h_isInitialized, h_audioContexts, h_initSuspended,
                   h_droneVoices, h_voices, h_starts, h_stopped, h_lastCall>>
    /\ UNCHANGED exceptHDrone

\* stopDrone: reads this.audioContext.currentTime first (throws while the
\* context is null), then schedules a stop on every voice in droneVoices
H_StopDrone ==
    /\ IF h_audioContexts = 0
       THEN /\ UNCHANGED <<h_droneVoices, h_voices, h_stopped>>
            /\ h_lastCall' = [name |-> "stopDrone", threw |-> TRUE]
       ELSE /\ h_voices' = [v \in 1..Len(h_voices) |->
                              IF v \in Range(h_droneVoices)
                              THEN [h_voices[v] EXCEPT !.stopScheduled = TRUE]
                              ELSE h_voices[v]]
            /\ h_droneVoices' = <<>>
            /\ h_stopped' = TRUE
            /\ h_lastCall' = [name |-> "stopDrone", threw |-> FALSE]
    /\ UNCHANGED <<h_isInitialized, h_audioContexts, h_initSuspended,
                   h_timers, h_starts>>
    /\ UNCHANGED exceptHDrone

----------------------------------------------------------------------------
(* Timers and numbers shared by the three sequencers *)

RECURSIVE GCD(_, _)
GCD(a, b) == IF b = 0 THEN a ELSE GCD(b, a % b)

\* a timer that ticks once per beat, whatever the subdivision
Period_PerBeat(bpm, subdivision) ==
    LET n == 60 * 1000
        d == bpm
        g == GCD(n, d)
    IN <<n \div g, d \div g>>

\* The period 60000 / (bpm * subdivision) ms of a step, as a reduced fraction
Period(bpm, subdivision) ==
    LET n == 60 * 1000
        d == bpm * subdivision
        g == GCD(n, d)
    IN <<n \div g, d \div g>>

\* setInterval: the handle is an integer > 0 that identifies no other live timer
FreshId(timers) ==
    IF timers = {} THEN 1
    ELSE 1 + (CHOOSE m \in {t.id : t \in timers} : \A t \in timers : t.id <= m)

\* setInterval(callback, period) on a set of live timers
setInterval(timers, period) ==
    timers \cup {[id |-> FreshId(timers), period |-> period]}

\* clearInterval(id)
clearInterval(timers, id) == {t \in timers : t.id # id}

\* the JavaScript % operator: the result takes the sign of the dividend
JsRem(a, n) == IF a >= 0 THEN a % n ELSE -((-a) % n)

Min(a, b) == IF a < b THEN a ELSE b
Max(a, b) == IF a > b THEN a ELSE b

\* values Math.random() returns, in thousandths (it never returns 1)
RandVals == {0, 500, 999}
\* tempo slider positions, BPM
Tempos == {90, 120}
\* randomness slider positions, thousandths
Randomness == {0, 500, 1000}

----------------------------------------------------------------------------
(* v2.0.0 UI: sequencer (ui.js) *)

\* Object.keys(sequencer.patterns)
Instruments == {"bowls", "wind", "strings", "horn", "moorhen", "oystercatcher", "stick"}
Steps == 0..15
\* the cells the model edits, and the notes it puts there
EditCells == {<<"bowls", 0>>, <<"stick", 5>>}
EditNotes == {0, 6}

\* the sequencer object as a record, so that handlers compose
UiSeq ==
    [playing |-> seq_playing, currentStep |-> seq_currentStep, tempo |-> seq_tempo,
     intervalId |-> seq_intervalId, timers |-> seq_timers, played |-> seq_played]

UiSeqCommit(q) ==
    /\ seq_playing' = q.playing
    /\ seq_currentStep' = q.currentStep
    /\ seq_tempo' = q.tempo
    /\ seq_intervalId' = q.intervalId
    /\ seq_timers' = q.timers
    /\ seq_played' = q.played

UiSeqInit ==
    /\ seq_playing = FALSE
    /\ seq_currentStep = 0
    /\ seq_tempo = 120
    /\ seq_randomness = 0
    /\ seq_intervalId = null
    /\ seq_patterns = [i \in Instruments |-> [st \in Steps |-> None]]
    /\ seq_dom = [i \in Instruments |-> [st \in Steps |-> [active |-> FALSE, select |-> None]]]
    /\ seq_timers = {}
    /\ seq_played = None
    /\ seq_triggered = {}
    /\ seq_lastEdit = [kind |-> "none"]

\* startSequencer that keeps the step pointer where the last run left it
startSequencer_NoReset(q) ==
    [q EXCEPT !.playing = TRUE,
              !.intervalId = FreshId(q.timers),
              !.timers = setInterval(q.timers, Period(q.tempo, 4)),
              !.played = None]

\* function startSequencer()
startSequencer(q) ==
    [q EXCEPT !.playing = TRUE,
              !.currentStep = 0,
              !.intervalId = FreshId(q.timers),
              !.timers = setInterval(q.timers, Period(q.tempo, 4)),
              !.played = None]

\* function stopSequencer()
stopSequencer(q) ==
    [q EXCEPT !.playing = FALSE,
              !.timers = IF q.intervalId # null
                         THEN clearInterval(q.timers, q.intervalId) ELSE q.timers,
              !.intervalId = null]

\* a tempo handler that starts the new timer without stopping the old one
restartIfPlaying_NoStop(q) == IF q.playing THEN startSequencer(q) ELSE q

\* tempo slider handler, after sequencer.tempo is set
restartIfPlaying(q) == IF q.playing THEN startSequencer(stopSequencer(q)) ELSE q

\* play/stop button
UiPlayButton ==
    /\ UiSeqCommit(IF seq_playing THEN stopSequencer(UiSeq) ELSE startSequencer(UiSeq))
    /\ UNCHANGED <<seq_randomness, seq_patterns, seq_dom, seq_lastEdit, seq_triggered>>
    /\ UNCHANGED exceptUiSeq

\* tempo slider
UiTempoInput(bpm) ==
    /\ UiSeqCommit(restartIfPlaying([UiSeq EXCEPT !.tempo = bpm]))
    /\ UNCHANGED <<seq_randomness, seq_patterns, seq_dom, seq_lastEdit, seq_triggered>>
    /\ UNCHANGED exceptUiSeq

\* randomness slider
UiRandomnessInput(r) ==
    /\ seq_randomness' = r
    /\ UNCHANGED <<seq_playing, seq_currentStep, seq_tempo, seq_intervalId,
                   seq_patterns, seq_dom, seq_lastEdit, seq_timers, seq_played, seq_triggered>>
    /\ UNCHANGED exceptUiSeq

\* click on a step (not on its select): toggle the cell
stepClick(cell, dom) ==
    IF dom.active
    THEN [cell |-> None, dom |-> [dom EXCEPT !.active = FALSE]]
    ELSE LET noteValue == IF dom.select # None THEN dom.select ELSE 0
         IN [cell |-> noteValue, dom |-> [active |-> TRUE, select |-> noteValue]]

\* change of a step's note select
selectChange(value) ==
    IF value # None
    THEN [cell |-> value, dom |-> [active |-> TRUE, select |-> value]]
    ELSE [cell |-> None, dom |-> [active |-> FALSE, select |-> value]]

\* the part of a step element and its pattern cell that a handler can change
UiCell(inst, st) ==
    [cell |-> seq_patterns[inst][st], active |-> seq_dom[inst][st].active,
     select |-> seq_dom[inst][st].select]

UiSetCell(kind, inst, st, r) ==
    /\ seq_patterns' = [seq_patterns EXCEPT ![inst][st] = r.cell]
    /\ seq_dom' = [seq_dom EXCEPT ![inst][st] = r.dom]
    /\ seq_lastEdit' = [kind |-> kind, instrument |-> inst, step |-> st,
                        before |-> UiCell(inst, st)]
    /\ UNCHANGED <<seq_playing, seq_currentStep, seq_tempo, seq_randomness,
                   seq_intervalId, seq_timers, seq_played, seq_triggered>>
    /\ UNCHANGED exceptUiSeq

UiStepClick(inst, st) ==
    /\ UiSetCell("click", inst, st,
                 stepClick(seq_patterns[inst][st], seq_dom[inst][st]))

UiSelectChange(inst, st, value) ==
    /\ UiSetCell("change", inst, st, selectChange(value))

\* playStep's note with the jitter left unclamped
playStepNote_NoClamp(noteIndex, randomness, rnd) ==
    LET jittered ==
            IF randomness > 0 /\ rnd[1] * 10 < randomness * 3
            THEN noteIndex + ((rnd[2] * 3) \div 1000) - 1
            ELSE noteIndex
    IN IF rnd[3] * 10 > randomness * 2 THEN jittered ELSE None

\* the note playStep passes for a stored note, given the three random draws
\* rnd = <<jitter?, jitter amount, skip?>>; None when the occurrence is skipped
playStepNote(noteIndex, randomness, rnd) ==
    LET jittered ==
            IF randomness > 0 /\ rnd[1] * 10 < randomness * 3
            THEN Max(0, Min(6, noteIndex + ((rnd[2] * 3) \div 1000) - 1))
            ELSE noteIndex
    IN IF rnd[3] * 10 > randomness * 2 THEN jittered ELSE None

\* playStep(stepIndex): the playInstrument calls it makes; rnd gives each
\* instrument with a non-null cell its draws
playStep(stepIndex, rnd) ==
    {[instrument |-> i, stored |-> seq_patterns[i][stepIndex],
      note |-> playStepNote(seq_patterns[i][stepIndex], seq_randomness, rnd[i])] :
        i \in {j \in DOMAIN rnd :
                 playStepNote(seq_patterns[j][stepIndex], seq_randomness, rnd[j]) # None}}

\* a pointer that skips every other step
nextStep_Skip(currentStep) == (currentStep + 2) % 16

\* the step pointer after a tick
nextStep(currentStep) == (currentStep + 1) % 16

\* a tick whose playStep writes the note it played back into the cell
UiTick_StoresJitter ==
    /\ \E t \in seq_timers :
       \E rnd \in [{i \in Instruments : seq_patterns[i][seq_currentStep] # None}
                     -> RandVals \X RandVals \X RandVals] :
          /\ seq_triggered' = playStep(seq_currentStep, rnd)
          /\ seq_patterns' =
                [i \in Instruments |->
                    IF \E c \in seq_triggered' : c.instrument = i
                    THEN [seq_patterns[i] EXCEPT ![seq_currentStep] =
                            (CHOOSE c \in seq_triggered' : c.instrument = i).note]
                    ELSE seq_patterns[i]]
          /\ seq_played' = seq_currentStep
          /\ seq_currentStep' = nextStep(seq_currentStep)
    /\ UNCHANGED <<seq_playing, seq_tempo, seq_randomness, seq_intervalId,
                   seq_dom, seq_lastEdit, seq_timers>>
    /\ UNCHANGED exceptUiSeq

\* a live interval timer fires: playStep(currentStep), then advance
UiTick ==
    /\ \E t \in seq_timers :
       \E rnd \in [{i \in Instruments : seq_patterns[i][seq_currentStep] # None}
                     -> RandVals \X RandVals \X RandVals] :
          /\ seq_triggered' = playStep(seq_currentStep, rnd)
          /\ seq_played' = seq_currentStep
          /\ seq_currentStep' = nextStep(seq_currentStep)
    /\ UNCHANGED <<seq_playing, seq_tempo, seq_randomness, seq_intervalId,
                   seq_patterns, seq_dom, seq_lastEdit, seq_timers>>
    /\ UNCHANGED exceptUiSeq

----------------------------------------------------------------------------
(* HimalayanSynth: sequencer (part_000) *)

HSeq ==
    [isPlaying |-> h_seqIsPlaying, currentStep |-> h_seqCurrentStep, bpm |-> h_seqBpm,
     intervalId |-> h_seqIntervalId, timers |-> h_seqTimers, played |-> h_seqPlayed,
     ticked |-> h_seqTicked]

HSeqCommit(q) ==
    /\ h_seqIsPlaying' = q.isPlaying
    /\ h_seqCurrentStep' = q.currentStep
    /\ h_seqBpm' = q.bpm
    /\ h_seqIntervalId' = q.intervalId
    /\ h_seqTimers' = q.timers
    /\ h_seqPlayed' = q.played
    /\ h_seqTicked' = q.ticked

HSeqInit ==
    /\ h_seqIsPlaying = FALSE
    /\ h_seqCurrentStep = 0
    /\ h_seqBpm = 120
    /\ h_seqRandomness = 0
    /\ h_seqIntervalId = null
    /\ h_seqTimers = {}
    /\ h_seqPlayed = None
    /\ h_seqTicked = FALSE

\* startSequencer(): the first step is played at once, the timer plays the rest
H_startSequencer(q) ==
    IF q.isPlaying THEN q
    ELSE [q EXCEPT !.isPlaying = TRUE,
                   !.currentStep = 0,
                   !.intervalId = FreshId(q.timers),
                   !.timers = setInterval(q.timers, Period(q.bpm, 2)),
                   !.played = 0,
                   !.ticked = FALSE]

\* stopSequencer()
H_stopSequencer(q) ==
    IF ~q.isPlaying THEN q
    ELSE [q EXCEPT !.isPlaying = FALSE,
                   !.timers = IF q.intervalId # null
                              THEN clearInterval(q.timers, q.intervalId) ELSE q.timers,
                   !.intervalId = null,
                   !.currentStep = 0]

\* setSequencerBPM(bpm)
H_setSequencerBPM(q, bpm) ==
    LET q1 == [q EXCEPT !.bpm = bpm]
    IN IF q1.isPlaying THEN H_startSequencer(H_stopSequencer(q1)) ELSE q1

\* Math.random() values that reach every outcome of Math.floor(r * 16) and of
\* Math.floor(r * 17), in thousandths
H_RandVals == {59 * k : k \in 0..16}
\* values passed to setSequencerRandomness, thousandths
H_Randomness == {0, 200, 1000, 1500}

\* an advance whose jump ranges over the whole pattern at any randomness
advanceSequencerStep_WideJump(currentStep, randomness, r1, r2) ==
    IF randomness = 0 THEN (currentStep + 1) % 16
    ELSE IF randomness >= 1000 THEN (r1 * 16) \div 1000
    ELSE IF r1 < randomness
         THEN LET jumpRange == 8
                  jump == ((r2 * (jumpRange * 2 + 1)) \div 1000) - jumpRange
              IN (JsRem(currentStep + jump, 16) + 16) % 16
         ELSE (currentStep + 1) % 16

\* advanceSequencerStep(): r1, r2 are the Math.random() draws it may make
advanceSequencerStep(currentStep, randomness, r1, r2) ==
    IF randomness = 0 THEN (currentStep + 1) % 16
    ELSE IF randomness >= 1000 THEN (r1 * 16) \div 1000
    ELSE IF r1 < randomness
         THEN LET jumpRange == (randomness * 15 + 999) \div 1000
                  jump == ((r2 * (jumpRange * 2 + 1)) \div 1000) - jumpRange
              IN (JsRem(currentStep + jump, 16) + 16) % 16
         ELSE (currentStep + 1) % 16

H_StartSequencer ==
    /\ HSeqCommit(H_startSequencer(HSeq))
    /\ UNCHANGED h_seqRandomness
    /\ UNCHANGED exceptHSeq

H_StopSequencer ==
    /\ HSeqCommit(H_stopSequencer(HSeq))
    /\ UNCHANGED h_seqRandomness
    /\ UNCHANGED exceptHSeq

H_SetSequencerBPM(bpm) ==
    /\ HSeqCommit(H_setSequencerBPM(HSeq, bpm))
    /\ UNCHANGED h_seqRandomness
    /\ UNCHANGED exceptHSeq

\* setSequencerRandomness(value): clamped to [0, 1]
H_SetSequencerRandomness(value) ==
    /\ h_seqRandomness' = Max(0, Min(1000, value))
    /\ UNCHANGED <<h_seqIsPlaying, h_seqCurrentStep, h_seqBpm, h_seqIntervalId,
                   h_seqTimers, h_seqPlayed, h_seqTicked>>
    /\ UNCHANGED exceptHSeq

\* a live interval timer fires: advance, then play the new step
H_Tick ==
    /\ \E t \in h_seqTimers :
       \E next \in {advanceSequencerStep(h_seqCurrentStep, h_seqRandomness, r1, r2) :
                       r1 \in H_RandVals, r2 \in H_RandVals} :
          /\ h_seqCurrentStep' = next
          /\ h_seqPlayed' = h_seqCurrentStep'
          /\ h_seqTicked' = TRUE
    /\ UNCHANGED <<h_seqIsPlaying, h_seqBpm, h_seqRandomness, h_seqIntervalId,
                   h_seqTimers>>
    /\ UNCHANGED exceptHSeq

----------------------------------------------------------------------------
(* HimalayanSynth: sequencer pattern (part_000) *)

\* the instrument rows of this.sequencer
H_Instruments == {"bowls", "wind", "strings", "horn", "moorhen", "oystercatcher"}
\* arguments the model passes: a row and a name that is no row, two steps
\* and an index past the end
H_EditInstruments == {"bowls", "tabla"}
H_EditSteps == {0, 15, 16}

\* this.sequencer[instrument] && this.sequencer[instrument][stepIndex]
H_HasStep(inst, st) == inst \in H_Instruments /\ st \in Steps

HEditInit ==
    /\ h_seqSteps = [i \in H_Instruments |->
                       [st \in Steps |-> [noteIndex |-> st % 7, active |-> FALSE]]]
    /\ h_lastEdit = [kind |-> "none"]

\* a toggle that also resets the note of the step
toggleSequencerStep_ResetsNote(steps, inst, st) ==
    IF H_HasStep(inst, st)
    THEN [steps EXCEPT ![inst][st] = [noteIndex |-> 0, active |-> ~@.active]]
    ELSE steps

\* toggleSequencerStep(instrument, stepIndex)
toggleSequencerStep(steps, inst, st) ==
    IF H_HasStep(inst, st)
    THEN [steps EXCEPT ![inst][st].active = ~@]
    ELSE steps

\* setSequencerStep(instrument, stepIndex, noteIndex, active), both given
setSequencerStep(steps, inst, st, noteIndex, active) ==
    IF H_HasStep(inst, st)
    THEN [steps EXCEPT ![inst][st] = [noteIndex |-> noteIndex, active |-> active]]
    ELSE steps

H_Edit(kind, inst, st, steps) ==
    /\ h_seqSteps' = steps
    /\ h_lastEdit' = [kind |-> kind, instrument |-> inst, step |-> st,
                      before |-> IF H_HasStep(inst, st)
                                 THEN h_seqSteps[inst][st] ELSE None]
    /\ UNCHANGED exceptHEdit

H_ToggleSequencerStep(inst, st) ==
    /\ H_Edit("toggle", inst, st, toggleSequencerStep(h_seqSteps, inst, st))

H_SetSequencerStep(inst, st, noteIndex, active) ==
    /\ H_Edit("set", inst, st, setSequencerStep(h_seqSteps, inst, st, noteIndex, active))

----------------------------------------------------------------------------
(* part_002 engine: sequencer *)

PSeq ==
    [isPlaying |-> p_seqIsPlaying, currentStep |-> p_seqCurrentStep, bpm |-> p_seqBpm,
     intervalId |-> p_seqIntervalId, timers |-> p_seqTimers, reported |-> p_seqReported]

PSeqCommit(q) ==
    /\ p_seqIsPlaying' = q.isPlaying
    /\ p_seqCurrentStep' = q.currentStep
    /\ p_seqBpm' = q.bpm
    /\ p_seqIntervalId' = q.intervalId
    /\ p_seqTimers' = q.timers
    /\ p_seqReported' = q.reported

PSeqInit ==
    /\ p_seqIsPlaying = FALSE
    /\ p_seqCurrentStep = 0
    /\ p_seqBpm = 120
    /\ p_seqRandomness = 0
    /\ p_seqIntervalId = null
    /\ p_seqTimers = {}
    /\ p_seqReported = None
    /\ p_seqReadOther = FALSE

\* startSequencer()
P_startSequencer(q) ==
    IF q.isPlaying THEN q
    ELSE [q EXCEPT !.isPlaying = TRUE,
                   !.currentStep = 0,
                   !.intervalId = FreshId(q.timers),
                   !.timers = setInterval(q.timers, Period(q.bpm, 4)),
                   !.reported = None]

\* stopSequencer()
P_stopSequencer(q) ==
    IF ~q.isPlaying THEN q
    ELSE [q EXCEPT !.isPlaying = FALSE,
                   !.timers = IF q.intervalId # null
                              THEN clearInterval(q.timers, q.intervalId) ELSE q.timers,
                   !.intervalId = null]

\* setSequencerTempo(bpm)
P_setSequencerTempo(q, bpm) ==
    LET q1 == [q EXCEPT !.bpm = bpm]
    IN IF q1.isPlaying THEN P_startSequencer(P_stopSequencer(q1)) ELSE q1

P_StartSequencer ==
    /\ PSeqCommit(P_startSequencer(PSeq))
    /\ UNCHANGED <<p_seqRandomness, p_seqReadOther>>
    /\ UNCHANGED exceptPSeq

P_StopSequencer ==
    /\ PSeqCommit(P_stopSequencer(PSeq))
    /\ UNCHANGED <<p_seqRandomness, p_seqReadOther>>
    /\ UNCHANGED exceptPSeq

P_SetSequencerTempo(bpm) ==
    /\ PSeqCommit(P_setSequencerTempo(PSeq, bpm))
    /\ UNCHANGED <<p_seqRandomness, p_seqReadOther>>
    /\ UNCHANGED exceptPSeq

\* setSequencerRandomness(value): stored as given
P_SetSequencerRandomness(value) ==
    /\ p_seqRandomness' = value
    /\ UNCHANGED <<p_seqIsPlaying, p_seqCurrentStep, p_seqBpm, p_seqIntervalId,
                   p_seqTimers, p_seqReported, p_seqReadOther>>
    /\ UNCHANGED exceptPSeq

\* the step one instrument's data is read from, given its two draws
stepToPlay(currentStep, randomness, r1, r2) ==
    IF r1 < randomness THEN (r2 * 16) \div 1000 ELSE currentStep

\* the steps an instrument's data can be read from on this tick
P_StepsToPlay ==
    {stepToPlay(p_seqCurrentStep, p_seqRandomness, r1, r2) :
        r1 \in RandVals, r2 \in RandVals}

\* a tick that moves the pointer to the step after the one it last read
P_Tick_FollowsRead ==
    /\ \E t \in p_seqTimers : \E st \in P_StepsToPlay :
          /\ p_seqReadOther' = (st # p_seqCurrentStep)
          /\ p_seqReported' = p_seqCurrentStep
          /\ p_seqCurrentStep' = (st + 1) % 16
    /\ UNCHANGED <<p_seqIsPlaying, p_seqBpm, p_seqRandomness, p_seqIntervalId,
                   p_seqTimers>>
    /\ UNCHANGED exceptPSeq

\* a live interval timer fires: playSequencerStep() reads a step for each
\* instrument, reports the pointer and then advances it
P_Tick ==
    /\ \E t \in p_seqTimers : \E st \in P_StepsToPlay :
          /\ p_seqReadOther' = (st # p_seqCurrentStep)
          /\ p_seqReported' = p_seqCurrentStep
          /\ p_seqCurrentStep' = (p_seqCurrentStep + 1) % 16
    /\ UNCHANGED <<p_seqIsPlaying, p_seqBpm, p_seqRandomness, p_seqIntervalId,
                   p_seqTimers>>
    /\ UNCHANGED exceptPSeq

----------------------------------------------------------------------------
(* Voice triggers: note index to frequency, instrument id to recipe *)

\* the value of an array read past either end, and of a function that
\* returned nothing
undefined == -2

\* arr[i] in JavaScript, for a 0-based integer index
ArrayGet(arr, i) == IF i \in 0..(Len(arr) - 1) THEN arr[i + 1] ELSE undefined

\* this.scaleIntervals of the v2.0.0 engine, semitones
scaleIntervals == <<0, 3, 5, 7, 10, 12, 15>>
\* this.scales.meditation of HimalayanSynth, hundredths of a Hz
h_meditation == <<13081, 15556, 17461, 19600, 23308, 26163, 31113, 34923, 39200,
                  46616, 52325>>
\* this.scales.meditation of the part_002 engine, hundredths of a Hz
p_meditation == <<13081, 15556, 17461, 19600, 23308, 26163, 31113>>

\* A frequency as the code computes it: a table entry (base) and what it is
\* multiplied by (shift: semitones of bend, or octaves); NaN has no entry
NaN == [defined |-> FALSE, base |-> undefined, shift |-> 0]

\* note indexes and instrument ids the callers pass
NoteIndexes == {-1, 0, 6, 7, 10, 11, 12}
TrigInstruments == Instruments \cup {"tabla"}

\* v2.0.0 getFrequency(noteIndex): "this.scaleIntervals[noteIndex] || 0"
getFrequency(noteIndex) ==
    LET entry == ArrayGet(scaleIntervals, noteIndex)
    IN [defined |-> TRUE,
        base |-> IF entry = undefined \/ entry = 0 THEN 0 ELSE entry,
        shift |-> pitchBend]

\* HimalayanSynth getNoteFrequency(noteIndex):
\* scale[noteIndex % scale.length] * 2 ^ floor(noteIndex / scale.length)
getNoteFrequency(noteIndex) ==
    LET entry == ArrayGet(h_meditation, JsRem(noteIndex, Len(h_meditation)))
    IN IF entry = undefined THEN NaN
       ELSE [defined |-> TRUE, base |-> entry,
             shift |-> noteIndex \div Len(h_meditation)]

\* part_002 playNote: "this.scales[this.currentScale][noteIndex]"
P_NoteFreq(noteIndex) ==
    LET entry == ArrayGet(p_meditation, noteIndex)
    IN IF entry = undefined THEN NaN
       ELSE [defined |-> TRUE, base |-> entry, shift |-> 0]

\* a switch with a default case that plays the bowl
playInstrumentVoice_DefaultBowl(instrument) ==
    IF instrument \in Instruments THEN instrument ELSE "bowls"

\* the switch of v2.0.0 playInstrument: the voice it triggers, "none" if none
playInstrumentVoice(instrument) ==
    IF instrument \in Instruments THEN instrument ELSE "none"

\* the switch of part_002 playNote: the recipe it calls
playNoteVoice(instrument) ==
    IF instrument \in H_Instruments THEN instrument ELSE "bowls"

TrigInit ==
    /\ voiceCount = 0
    /\ p_isInitialized = FALSE
    /\ p_audioContexts = 0
    /\ p_initSuspended = 0
    /\ p_windNode = FALSE
    /\ p_windVolume = 0
    /\ instrumentVolumes = [i \in Instruments |->
            CASE i \in {"bowls", "strings"} -> 700
              [] i \in {"wind", "horn", "stick"} -> 600
              [] i = "moorhen" -> 500
              [] OTHER -> 400]
    /\ lastVoice = [instrument |-> "none", bend |-> 0, volume |-> 0,
                    sources |-> <<>>]
    /\ trig = [engine |-> "none", op |-> "new", instrument |-> "none",
               arg |-> 0, ready |-> FALSE, voice |-> "none", freq |-> NaN,
               threw |-> FALSE]

TrigCall(engine, op, instrument, arg, ready, voice, freq, threw) ==
    [engine |-> engine, op |-> op, instrument |-> instrument, arg |-> arg,
     ready |-> ready, voice |-> voice, freq |-> freq, threw |-> threw]

\* One sound source of a one-shot voice, times in ms after the trigger
\* instant "now": when it starts, when it stops, and gainAt, the time of the
\* setValueAtTime(0, ...) on the gain stage between it and this.filterNode
\* (before that event a gain node holds its default value 1).

\* an oscillator whose stop() call was left out
oscSource_NoStop(name, start, stop, gainAt) ==
    [name |-> name, kind |-> "osc", start |-> start, stop |-> None,
     gainAt |-> gainAt]

\* an oscillator: osc.start(now + start); osc.stop(now + stop)
oscSource(name, start, stop, gainAt) ==
    [name |-> name, kind |-> "osc", start |-> start, stop |-> stop,
     gainAt |-> gainAt]

\* createNoise(duration): a buffer source of that length, not looped, started
\* at currentTime; it ends when its buffer has played
noiseSource(name, duration, gainAt) ==
    [name |-> name, kind |-> "noise", start |-> 0, stop |-> duration,
     gainAt |-> gainAt]

\* the sources each play* method creates
voiceSources(instrument) ==
    CASE instrument = "bowls" ->
           <<oscSource("osc1", 0, 4000, 0), oscSource("osc2", 0, 3000, 0),
             oscSource("osc3", 0, 2000, 0)>>
      [] instrument = "wind" ->
           <<oscSource("osc", 0, 1500, 0), noiseSource("noise", 1500, 0),
             oscSource("vibrato", 0, 1500, 0)>>
      [] instrument = "strings" ->
           <<oscSource("baseOsc", 0, 2000, 0), oscSource("osc2", 0, 1500, 0)>>
      [] instrument = "horn" ->
           [h \in 1..6 |-> oscSource("osc", 0, 1200, 0)]
      [] instrument = "moorhen" ->
           <<oscSource("osc", 0, 400, 0), oscSource("modOsc", 0, 400, 0)>>
      [] instrument = "oystercatcher" ->
           [i \in 1..2 |-> oscSource("osc", (i - 1) * 120, (i - 1) * 120 + 120,
                                     (i - 1) * 120)]
      [] instrument = "stick" ->
           <<noiseSource("crackNoise", 150, 0),
             oscSource("woodOsc1", 0, 200, 0), oscSource("woodOsc2", 0, 150, 0),
             noiseSource("crackle1", 80, 20), noiseSource("fiberNoise", 120, 5)>>
      [] OTHER -> <<>>

\* v2.0.0 playInstrument(instrument, noteIndex); playStick takes its pitch
\* from 200 + noteIndex * 80 and reads no table
PlayInstrument(instrument, noteIndex) ==
    /\ voiceCount < MaxVoices
    /\ LET voice == playInstrumentVoice(instrument)
           freq == IF voice \in {"none", "stick"} THEN NaN
                   ELSE getFrequency(noteIndex)
       IN /\ voiceCount' = IF voice = "none" THEN voiceCount ELSE voiceCount + 1
          /\ lastVoice' = IF voice = "none" THEN lastVoice
                          ELSE [instrument |-> voice, bend |-> freq.shift,
                                volume |-> instrumentVolumes[voice],
                                sources |-> voiceSources(voice)]
          /\ trig' = TrigCall("v2", "playInstrument", instrument, noteIndex, TRUE,
                              voice, freq, FALSE)
    /\ UNCHANGED <<instrumentVolumes, p_isInitialized, p_audioContexts,
                   p_initSuspended, p_windNode, p_windVolume>>
    /\ UNCHANGED exceptTrig

\* v2.0.0 setInstrumentVolume(instrument, value)
SetInstrumentVolume(instrument, value) ==
    /\ instrumentVolumes' = [instrumentVolumes EXCEPT ![instrument] = value]
    /\ trig' = TrigCall("v2", "setInstrumentVolume", instrument, value, TRUE,
                        "none", NaN, FALSE)
    /\ UNCHANGED <<lastVoice, voiceCount, p_isInitialized, p_audioContexts,
                   p_initSuspended, p_windNode, p_windVolume>>
    /\ UNCHANGED exceptTrig

\* HimalayanSynth getNoteFrequency(noteIndex), as playSequencerStep calls it
H_GetNoteFrequency(noteIndex) ==
    /\ trig' = TrigCall("himalayan", "getNoteFrequency", "none", noteIndex, TRUE,
                        "none", getNoteFrequency(noteIndex), FALSE)
    /\ UNCHANGED <<instrumentVolumes, lastVoice, voiceCount, p_isInitialized, p_audioContexts, p_initSuspended,
                   p_windNode, p_windVolume>>
    /\ UNCHANGED exceptTrig

\* part_002 init up to "await this.createReverb()"
P_InitBegin ==
    /\ p_audioContexts < MaxPInits
    /\ IF p_isInitialized
       THEN UNCHANGED <<p_audioContexts, p_initSuspended>>
       ELSE /\ p_audioContexts' = p_audioContexts + 1
            /\ p_initSuspended' = p_initSuspended + 1
    /\ trig' = TrigCall("part_002", "init", "none", 0, p_isInitialized, "none",
                        NaN, FALSE)
    /\ UNCHANGED <<instrumentVolumes, lastVoice, voiceCount, p_isInitialized, p_windNode, p_windVolume>>
    /\ UNCHANGED exceptTrig

\* part_002 init after the await: the chain is connected, isInitialized is set
P_InitResume ==
    /\ p_initSuspended > 0
    /\ p_initSuspended' = p_initSuspended - 1
    /\ p_isInitialized' = TRUE
    /\ trig' = TrigCall("part_002", "initResume", "none", 0, p_isInitialized,
                        "none", NaN, FALSE)
    /\ UNCHANGED <<instrumentVolumes, lastVoice, voiceCount, p_audioContexts, p_windNode, p_windVolume>>
    /\ UNCHANGED exceptTrig

\* part_002 playNote(instrument, noteIndex): a recipe given an undefined
\* frequency passes NaN to AudioParam.setValueAtTime, which throws
P_PlayNote(instrument, noteIndex) ==
    /\ trig' = IF ~p_isInitialized
               THEN TrigCall("part_002", "playNote", instrument, noteIndex, FALSE,
                             "none", NaN, FALSE)
               ELSE TrigCall("part_002", "playNote", instrument, noteIndex, TRUE,
                             playNoteVoice(instrument), P_NoteFreq(noteIndex),
                             ~P_NoteFreq(noteIndex).defined)
    /\ UNCHANGED <<instrumentVolumes, lastVoice, voiceCount, p_isInitialized, p_audioContexts, p_initSuspended,
                   p_windNode, p_windVolume>>
    /\ UNCHANGED exceptTrig

\* part_002 setWindVolume(volume): startWind dereferences this.audioContext,
\* which is null until init has begun
P_SetWindVolume(volume) ==
    /\ p_windVolume' = volume
    /\ IF volume > 0 /\ ~p_windNode /\ p_audioContexts = 0
       THEN /\ UNCHANGED p_windNode
            /\ trig' = TrigCall("part_002", "setWindVolume", "none", volume,
                                p_isInitialized, "none", NaN, TRUE)
       ELSE /\ p_windNode' = (p_windNode \/ volume > 0)
            /\ trig' = TrigCall("part_002", "setWindVolume", "none", volume,
                                p_isInitialized, "none", NaN, FALSE)
    /\ UNCHANGED <<instrumentVolumes, lastVoice, voiceCount, p_isInitialized, p_audioContexts, p_initSuspended>>
    /\ UNCHANGED exceptTrig

----------------------------------------------------------------------------
(* Specifications *)

(* v2.0.0 UI: MIDI notes (ui.js) *)

\* MIDI note numbers, velocities and channels the model sends
MidiNotes == {0, 60, 63, 65, 67, 70, 72, 75, 127}
MidiVelocities == {64, 127}
MidiChannels == {0, 1, 6, 15}

\* const chromaticToScale = { 0: 0, 1: 0, 2: 1, ... 11: 5 }
chromaticToScale == <<0, 0, 1, 1, 2, 2, 3, 3, 4, 4, 4, 5>>

\* midi.channelMap
channelMap == <<"bowls", "wind", "strings", "horn", "moorhen", "oystercatcher", "stick">>

\* midiNoteToScaleIndex(midiNote): Math.floor is \div, % is JsRem
midiNoteToScaleIndex(midiNote) ==
    LET noteInOctave == JsRem(midiNote, 12)
        octaveOffset == (midiNote - 48) \div 12
        scaleIndex == chromaticToScale[noteInOctave + 1] + octaveOffset * 5
    IN Max(0, Min(6, JsRem(scaleIndex, 7)))

MidiInit ==
    lastNoteOn = [note |-> None, velocity |-> 0, channel |-> 0,
                instrument |-> "none", noteIndex |-> None, volumeWas |-> 0]

\* a note-on handler that leaves the scaled volume in place
MidiNoteOn_NoRestore(note, velocity, channel) ==
    /\ voiceCount < MaxVoices
    /\ LET instrument == IF channel >= 1 /\ channel <= 6
                         THEN channelMap[channel + 1] ELSE "bowls"
           noteIndex == midiNoteToScaleIndex(note)
           scaled == [instrumentVolumes EXCEPT
                         ![instrument] = (@ * velocity) \div 127]
       IN /\ lastNoteOn' = [note |-> note, velocity |-> velocity,
                          channel |-> channel, instrument |-> instrument,
                          noteIndex |-> noteIndex,
                          volumeWas |-> instrumentVolumes[instrument]]
          /\ voiceCount' = voiceCount + 1
          /\ lastVoice' = [instrument |-> instrument,
                           bend |-> IF instrument = "stick" THEN 0 ELSE pitchBend,
                           volume |-> scaled[instrument],
                           sources |-> voiceSources(instrument)]
          /\ trig' = TrigCall("v2", "playInstrument", instrument, noteIndex, TRUE,
                              instrument,
                              IF instrument = "stick" THEN NaN
                              ELSE getFrequency(noteIndex), FALSE)
          /\ instrumentVolumes' = scaled
    /\ UNCHANGED <<p_isInitialized, p_audioContexts, p_initSuspended, p_windNode,
                   p_windVolume>>
    /\ UNCHANGED exceptMidi

\* handleMIDINoteOn(note, velocity, channel), with midi.activeInstrument at
\* its initial 'bowls': the instrument's volume is scaled by velocity / 127,
\* playInstrument is called, and the volume is put back
MidiNoteOn(note, velocity, channel) ==
    /\ voiceCount < MaxVoices
    /\ LET instrument == IF channel >= 1 /\ channel <= 6
                         THEN channelMap[channel + 1] ELSE "bowls"
           noteIndex == midiNoteToScaleIndex(note)
           scaled == [instrumentVolumes EXCEPT
                         ![instrument] = (@ * velocity) \div 127]
           restored == [scaled EXCEPT ![instrument] = instrumentVolumes[instrument]]
       IN /\ lastNoteOn' = [note |-> note, velocity |-> velocity,
                          channel |-> channel, instrument |-> instrument,
                          noteIndex |-> noteIndex,
                          volumeWas |-> instrumentVolumes[instrument]]
          /\ voiceCount' = voiceCount + 1
          /\ lastVoice' = [instrument |-> instrument,
                           bend |-> IF instrument = "stick" THEN 0 ELSE pitchBend,
                           volume |-> scaled[instrument],
                           sources |-> voiceSources(instrument)]
          /\ trig' = TrigCall("v2", "playInstrument", instrument, noteIndex, TRUE,
                              instrument,
                              IF instrument = "stick" THEN NaN
                              ELSE getFrequency(noteIndex), FALSE)
          /\ instrumentVolumes' = restored
    /\ UNCHANGED <<p_isInitialized, p_audioContexts, p_initSuspended, p_windNode,
                   p_windVolume>>
    /\ UNCHANGED exceptMidi

----------------------------------------------------------------------------
(* v2.0.0 UI: drone button (ui.js) *)

DroneBtnInit == droneBtnActive = FALSE

\* a click handler that shows what droneActive was before the call
DroneBtnClick_StaleReturn(base, vol) ==
    /\ CanCreate
    /\ IF droneActive
       THEN /\ StopDroneBody
            /\ UNCHANGED <<droneBaseNote, droneTargetVolume, oscNodes>>
       ELSE /\ StartDroneBody(base, vol)
            /\ UNCHANGED teardownTimers
    /\ UNCHANGED pitchBend
    /\ lastCall' = Call("toggleDrone", Len(oscNodes') - Len(oscNodes),
                        Len(teardownTimers') > Len(teardownTimers), droneActive)
    /\ droneBtnActive' = lastCall'.ret
    /\ UNCHANGED exceptDroneBtn

\* click on #drone-btn: isActive = synth.toggleDrone(base, vol);
\* droneBtn.classList.toggle('active', isActive)
DroneBtnClick(base, vol) ==
    /\ CanCreate
    /\ IF droneActive
       THEN /\ StopDroneBody
            /\ UNCHANGED <<droneBaseNote, droneTargetVolume, oscNodes>>
       ELSE /\ StartDroneBody(base, vol)
            /\ UNCHANGED teardownTimers
    /\ UNCHANGED pitchBend
    /\ lastCall' = Call("toggleDrone", Len(oscNodes') - Len(oscNodes),
                        Len(teardownTimers') > Len(teardownTimers), droneActive')
    /\ droneBtnActive' = lastCall'.ret
    /\ UNCHANGED exceptDroneBtn

----------------------------------------------------------------------------
(* Expression pads (ui.js, part_000 / part_001, part_003 / part_002) *)

\* pad positions after clamping to the pad, thousandths of its width / height
PadPositions == {0, 250, 500, 750, 1000}

\* the integer square root, rounded down
RECURSIVE ISqrtIn(_, _, _)
ISqrtIn(n, lo, hi) ==
    IF lo >= hi THEN lo
    ELSE LET mid == (lo + hi + 1) \div 2
         IN IF mid * mid <= n THEN ISqrtIn(n, mid, hi) ELSE ISqrtIn(n, lo, mid - 1)

\* 200 * Math.pow(40, relX) at the quarter points, in whole Hz rounded down:
\* 40^0 = 1, 40^1 = 40, and each point between is the geometric mean of
\* its neighbours
Pow40Times200(relX) ==
    LET half == ISqrtIn(200 * 8000, 0, 8000)
    IN CASE relX = 0 -> 200
         [] relX = 250 -> ISqrtIn(200 * half, 0, 8000)
         [] relX = 500 -> half
         [] relX = 750 -> ISqrtIn(half * 8000, 0, 8000)
         [] OTHER -> 8000

\* v2.0.0 updateFromPosition: filterFreq = 200 * 40^relX, reverb = 1 - relY
updateFromPosition(relX, relY) ==
    [filter |-> Pow40Times200(relX), reverb |-> 1000 - relY]

\* part_001 updatePosition calls updateExpression(x, 1 - y):
\* filterCutoff = 200 + x * 7800, reverbMix = y
updateExpression(x, y) ==
    [filter |-> 200 + (x * 7800) \div 1000, reverb |-> y]

\* part_003 updateXY: filterFreq = 200 + xPercent * 4800, reverbMix = 1 - yPercent
updateXY(xPercent, yPercent) ==
    [filter |-> 200 + (xPercent * 4800) \div 1000, reverb |-> 1000 - yPercent]

PadInit ==
    /\ expr_v2 = [filter |-> 2000, reverb |-> 500]
    /\ expr_h = [filter |-> 2000, reverb |-> 500]
    /\ expr_p = [filter |-> 2000, reverb |-> 500]
    /\ pad = [ui |-> "none", x |-> 0, y |-> 0]

\* v2.0.0 pad: mousedown, or mousemove while dragging
UiPadMove(x, y) ==
    /\ expr_v2' = updateFromPosition(x, y)
    /\ pad' = [ui |-> "v2", x |-> x, y |-> y]
    /\ UNCHANGED <<expr_h, expr_p>>
    /\ UNCHANGED exceptPad

\* HimalayanSynth pad (part_001 updatePosition)
H_PadMove(x, y) ==
    /\ expr_h' = updateExpression(x, 1000 - y)
    /\ pad' = [ui |-> "himalayan", x |-> x, y |-> y]
    /\ UNCHANGED <<expr_v2, expr_p>>
    /\ UNCHANGED exceptPad

\* part_003 pad: synth.setFilter / synth.setReverb of part_002
P_PadMove(x, y) ==
    /\ expr_p' = updateXY(x, y)
    /\ pad' = [ui |-> "part_003", x |-> x, y |-> y]
    /\ UNCHANGED <<expr_v2, expr_h>>
    /\ UNCHANGED exceptPad

----------------------------------------------------------------------------
(* v2.0.0 UI: pitch wheel and MIDI pitch bend (ui.js) *)

\* where the pointer goes down on the wheel and where it is dragged to:
\* relY after clamping, thousandths
WheelPositions == {0, 500, 1000}
DragPositions == {250, 750}
\* the data bytes <<data1, data2>> of the pitch-bend messages the model
\* sends: lowest, centre, halfway up, highest
MidiBendBytes == {<<0, 0>>, <<0, 64>>, <<0, 96>>, <<127, 127>>}

\* a 14-bit value built as if the data bytes had 8 bits
pitchBend14_EightBit(data1, data2) == data2 * 256 + data1

\* (data2 << 7) | data1: data1 has 7 bits, so the bits do not overlap
pitchBend14(data1, data2) == data2 * 128 + data1

\* semitones = ((value - 8192) / 8192) * 2, in whole semitones rounded down
midiSemitones(value14) == ((value14 - 8192) * 2) \div 8192

\* updatePitch(y): const pitchBend = (0.5 - relY) * 4
updatePitch(relY) == ((500 - relY) * 4) \div 1000

WheelInit ==
    /\ isDragging = FALSE
    /\ midiBendSince = FALSE
    /\ midiBend14 = None

\* mousedown / touchstart on the wheel
WheelDown(relY) ==
    /\ isDragging' = TRUE
    /\ setPitchBend(updatePitch(relY))
    /\ midiBend14' = None
    /\ UNCHANGED midiBendSince
    /\ UNCHANGED exceptWheel

\* mousemove on the document / touchmove on the wheel
WheelMove(relY) ==
    /\ IF isDragging
       THEN setPitchBend(updatePitch(relY)) /\ midiBend14' = None
       ELSE UNCHANGED <<droneVars, midiBend14>>
    /\ UNCHANGED <<isDragging, midiBendSince>>
    /\ UNCHANGED exceptWheel

\* a release that leaves the wheel where it was dropped
WheelUp_NoReset ==
    /\ isDragging' = FALSE
    /\ midiBendSince' = IF isDragging THEN FALSE ELSE midiBendSince
    /\ UNCHANGED <<droneVars, midiBend14>>
    /\ UNCHANGED exceptWheel

\* mouseup on the document / touchend on the wheel: resetPitch() when dragging
WheelUp ==
    /\ IF isDragging
       THEN /\ isDragging' = FALSE
            /\ setPitchBend(0)
            /\ midiBendSince' = FALSE
            /\ midiBend14' = None
       ELSE UNCHANGED <<isDragging, midiBendSince, midiBend14, droneVars>>
    /\ UNCHANGED exceptWheel

\* handleMIDIMessage, command 14
MidiPitchBend(data1, data2) ==
    /\ setPitchBend(midiSemitones(pitchBend14(data1, data2)))
    /\ midiBend14' = pitchBend14(data1, data2)
    /\ midiBendSince' = TRUE
    /\ UNCHANGED isDragging
    /\ UNCHANGED exceptWheel

----------------------------------------------------------------------------
(* HimalayanSynth: keyboard voices and pitch bend (part_000) *)

\* keys the model presses: 'a' and 'l' are in keyMap, 'z' is not
H_Keys == {"a", "l", "z"}
\* pitch-bend values the wheel sends ((0.5 - y) * 2 with y clamped to
\* 0.1..0.9, and 0 on release), thousandths
H_Bends == {-800, 0, 800}

\* this.keyMap[keyCode]: the scale degree of a key, undefined for other keys
keyMap(keyCode) ==
    CASE keyCode = "a" -> 0
      [] keyCode = "l" -> 14
      [] OTHER -> undefined

\* createBowlVoice(frequency, 0.8) for a key: every oscillator's frequency is
\* frequency * ratio * (1 + expression.pitchBend * 0.05), read once here; its
\* detune is a random offset within +-2.5 cents, of which the model keeps
\* the part a pitch bend adds (detuneBend, cents), 0 at creation
createBowlVoice(scaleIndex) ==
    [scaleIndex |-> scaleIndex, bend |-> h_pitchBend, detuneBend |-> 0]

HVoiceInit ==
    /\ h_pitchBend = 0
    /\ h_activeVoices = [k \in H_Keys |-> <<>>]
    /\ h_voiceCall = [name |-> "new", key |-> "", value |-> 0]

\* playNote(keyCode)
H_PlayNote(keyCode) ==
    /\ h_activeVoices' =
          IF ~h_isInitialized \/ keyMap(keyCode) = undefined
             \/ h_activeVoices[keyCode] # <<>>
          THEN h_activeVoices
          ELSE [h_activeVoices EXCEPT
                   ![keyCode] = <<createBowlVoice(keyMap(keyCode))>>]
    /\ h_voiceCall' = [name |-> "playNote", key |-> keyCode, value |-> 0]
    /\ UNCHANGED h_pitchBend
    /\ UNCHANGED exceptHVoice

\* stopNote(keyCode): the voice is released and forgotten
H_StopNote(keyCode) ==
    /\ h_activeVoices' = [h_activeVoices EXCEPT ![keyCode] = <<>>]
    /\ h_voiceCall' = [name |-> "stopNote", key |-> keyCode, value |-> 0]
    /\ UNCHANGED h_pitchBend
    /\ UNCHANGED exceptHVoice

\* setPitchBend(value): stores the value and sets osc.detune.value of every
\* oscillator of every voice in activeVoices to baseDetune + value * 100
H_SetPitchBend(value) ==
    /\ h_pitchBend' = value
    /\ h_activeVoices' =
          [k \in H_Keys |->
              [v \in DOMAIN h_activeVoices[k] |->
                  [h_activeVoices[k][v] EXCEPT
                      !.detuneBend = (value * 100) \div 1000]]]
    /\ h_voiceCall' = [name |-> "setPitchBend", key |-> "", value |-> value]
    /\ UNCHANGED exceptHVoice

Init == DroneInit /\ MidiInit /\ DroneBtnInit /\ WheelInit /\ PadInit /\ HDroneInit /\ HVoiceInit /\ UiSeqInit /\ HSeqInit /\ PSeqInit /\ HEditInit
        /\ TexInit /\ TrigInit

\* the v2.0.0 engine's drone
DroneNext ==
    \/ \E b \in BaseNotes, v \in Volumes : StartDrone(b, v)
    \/ StopDrone
    \/ \E b \in BaseNotes, v \in Volumes : ToggleDrone(b, v)
    \/ \E v \in Volumes : SetDroneVolume(v)
    \/ \E s \in BaseNotes : SetDroneBase(s)
    \/ \E s \in Bends : SetPitchBend(s)
    \/ TeardownTimer

SpecDrone == Init /\ [][DroneNext]_vars

\* HimalayanSynth's drone
HDroneNext ==
    \/ H_InitBegin
    \/ H_InitResume
    \/ H_StartDrone
    \/ H_DroneTimer
    \/ H_Elapse
    \/ H_StopDrone

SpecHDrone == Init /\ [][HDroneNext]_vars

\* the clock of the v2.0.0 UI sequencer
UiClockNext ==
    \/ UiPlayButton
    \/ \E bpm \in Tempos : UiTempoInput(bpm)
    \/ \E r \in Randomness : UiRandomnessInput(r)
    \/ UiTick

\* the clock of HimalayanSynth's sequencer
HSeqNext ==
    \/ H_StartSequencer
    \/ H_StopSequencer
    \/ \E bpm \in Tempos : H_SetSequencerBPM(bpm)
    \/ \E r \in H_Randomness : H_SetSequencerRandomness(r)
    \/ H_Tick

\* the clock of the part_002 sequencer
PSeqNext ==
    \/ P_StartSequencer
    \/ P_StopSequencer
    \/ \E bpm \in Tempos : P_SetSequencerTempo(bpm)
    \/ \E r \in Randomness : P_SetSequencerRandomness(r)
    \/ P_Tick

\* pattern editing in the v2.0.0 UI
UiEditNext ==
    \/ \E c \in EditCells : UiStepClick(c[1], c[2])
    \/ \E c \in EditCells, n \in EditNotes \cup {None} :
          UiSelectChange(c[1], c[2], n)

\* the v2.0.0 UI sequencer and HimalayanSynth's, side by side
SeqNext == UiClockNext \/ HSeqNext
SpecSeq == Init /\ [][SeqNext]_vars

\* the v2.0.0 UI sequencer and the part_002 one, side by side
Seq2Next == UiClockNext \/ PSeqNext
SpecSeq2 == Init /\ [][Seq2Next]_vars

\* the v2.0.0 UI sequencer with its pattern editor
UiSeqNext == UiClockNext \/ UiEditNext
SpecUiSeq == Init /\ [][UiSeqNext]_vars

\* pattern editing in HimalayanSynth
HEditNext ==
    \/ \E i \in H_EditInstruments, st \in H_EditSteps : H_ToggleSequencerStep(i, st)
    \/ \E i \in H_EditInstruments, st \in H_EditSteps, n \in EditNotes :
          H_SetSequencerStep(i, st, n, TRUE)

\* the two pattern editors, side by side
EditNext == UiEditNext \/ HEditNext
SpecEdit == Init /\ [][EditNext]_vars

\* the v2.0.0 engine's ambient textures
TexNext ==
    \/ \E v \in TexVolumes : SetWindVolume(v)
    \/ \E v \in TexVolumes : SetWaterVolume(v)

SpecTex == Init /\ [][TexNext]_vars

\* voice triggers of the three engines
TrigNext ==
    \/ \E i \in {"bowls", "stick", "tabla"}, n \in NoteIndexes :
            PlayInstrument(i, n)
    \/ \E n \in NoteIndexes : H_GetNoteFrequency(n)
    \/ P_InitBegin
    \/ P_InitResume
    \/ \E i \in TrigInstruments, n \in NoteIndexes : P_PlayNote(i, n)
    \/ \E v \in Volumes : P_SetWindVolume(v)

SpecTrig == Init /\ [][TrigNext]_vars

\* one-shot voices of the v2.0.0 engine and what is set while they sound
VoiceNext ==
    \/ \E i \in Instruments, n \in 0..6 : PlayInstrument(i, n)
    \/ \E s \in Bends : SetPitchBend(s)
    \/ \E i \in {"bowls", "stick"}, v \in {200, 1000} : SetInstrumentVolume(i, v)

SpecVoice == Init /\ [][VoiceNext]_vars

\* the pitch wheel and MIDI pitch bend over the v2.0.0 drone
WheelNext ==
    \/ \E y \in WheelPositions : WheelDown(y)
    \/ \E y \in DragPositions : WheelMove(y)
    \/ WheelUp
    \/ \E b \in MidiBendBytes : MidiPitchBend(b[1], b[2])
    \/ \E b \in BaseNotes : StartDrone(b, 300)
    \/ StopDrone
    \/ TeardownTimer

SpecWheel == Init /\ [][WheelNext]_vars

\* initialisation of the two engines that track isInitialized, with the
\* operations that wait for it
InitNext ==
    \/ H_InitBegin
    \/ H_InitResume
    \/ H_StartDrone
    \/ H_StopDrone
    \/ P_InitBegin
    \/ P_InitResume
    \/ \E v \in Volumes : P_SetWindVolume(v)

SpecInit == Init /\ [][InitNext]_vars

\* MIDI notes into the v2.0.0 engine
MidiNext ==
    \/ \E n \in MidiNotes, v \in MidiVelocities, c \in MidiChannels :
          MidiNoteOn(n, v, c)
    \/ \E i \in {"bowls", "stick"}, v \in {200, 1000} : SetInstrumentVolume(i, v)

SpecMidi == Init /\ [][MidiNext]_vars

\* the v2.0.0 drone as its UI drives it
DroneUiNext ==
    \/ \E b \in BaseNotes, v \in Volumes : DroneBtnClick(b, v)
    \/ \E v \in Volumes : SetDroneVolume(v)
    \/ \E s \in BaseNotes : SetDroneBase(s)
    \/ \E s \in Bends : SetPitchBend(s)
    \/ TeardownTimer

SpecDroneUi == Init /\ [][DroneUiNext]_vars

\* the expression pads of the three UIs
PadNext ==
    \/ \E x \in PadPositions, y \in {0, 1000} : UiPadMove(x, y)
    \/ \E x \in PadPositions, y \in {0, 1000} : H_PadMove(x, y)
    \/ \E x \in PadPositions, y \in {0, 1000} : P_PadMove(x, y)

SpecPad == Init /\ [][PadNext]_vars

\* voices of both engines against the setters of pitch bend and volume
BendNext ==
    \/ PlayInstrument("bowls", 0)
    \/ \E s \in {0, 2} : SetPitchBend(s)
    \/ SetInstrumentVolume("bowls", 200)
    \/ H_InitBegin
    \/ H_InitResume
    \/ \E k \in H_Keys : H_PlayNote(k)
    \/ \E k \in H_Keys : H_StopNote(k)
    \/ \E v \in H_Bends : H_SetPitchBend(v)

SpecBend == Init /\ [][BendNext]_vars

Next == DroneNext \/ HDroneNext \/ UiSeqNext \/ HSeqNext \/ PSeqNext \/ HEditNext
           \/ TexNext \/ TrigNext \/ VoiceNext \/ BendNext \/ WheelNext \/ PadNext \/ DroneUiNext \/ MidiNext \/ InitNext
Spec == Init /\ [][Next]_vars

----------------------------------------------------------------------------
(* Properties of the v2.0.0 drone (SpecDrone) *)

droneFields == <<droneActive, droneOscillators, droneBaseNote, droneTargetVolume,
                 droneGainTarget, pitchBend, oscNodes, teardownTimers>>

\* C1: a startDrone call made while droneActive is true creates no oscillator
\* and changes no drone field, and whenever the drone is active the bank
\* holds exactly the 4 oscillators of one bank.
C1_StartDroneIdempotent ==
    [][ /\ (droneActive /\ lastCall'.name = "startDrone") => UNCHANGED droneFields
        /\ droneActive' => Len(droneOscillators') = 4 ]_vars

C1_Witness ==
    /\ lastCall.name = "startDrone"
    /\ lastCall.wasActive
    /\ droneActive
    /\ Len(droneOscillators) = 4

\* C2: once every pending teardown timer has fired, the number of drone
\* oscillators started and not yet stopped is 4 if droneActive and 0 otherwise.
C2_OneBankAfterTeardown ==
    teardownTimers = <<>> =>
        Cardinality(RunningOscs) = IF droneActive THEN 4 ELSE 0

\* a teardown fired while the drone was active again: stop, start inside the
\* 2000 ms window, then the old bank's timer
C2_Witness ==
    /\ lastCall.name = "teardownTimer"
    /\ lastCall.wasActive
    /\ teardownTimers = <<>>
    /\ Len(oscNodes) = 8
    /\ Cardinality(RunningOscs) = 4

\* C3 as stated: a startDrone made while a stopped bank is fading out (its
\* teardown timer pending) creates no oscillator, and a stopDrone made while
\* the drone is inactive or fading out schedules no teardown.
C3_FadeOutBlocksStart ==
    /\ (lastCall.name = "startDrone" /\ lastCall.fading) => lastCall.created = 0
    /\ (lastCall.name = "stopDrone" /\ (~lastCall.wasActive \/ lastCall.fading))
          => ~lastCall.scheduled

\* C3 amended: startDrone is a no-op exactly when droneActive is true, and
\* otherwise (also while a stopped bank is fading out) creates a bank of 4;
\* stopDrone is a no-op exactly when droneActive is false, and otherwise
\* schedules one teardown.
C3_NoOpIffFlag ==
    /\ lastCall.name = "startDrone" =>
          lastCall.created = (IF lastCall.wasActive THEN 0 ELSE 4)
    /\ lastCall.name = "stopDrone" => (lastCall.scheduled <=> lastCall.wasActive)

\* a startDrone inside the fade-out window that created a bank
C3_Witness ==
    /\ lastCall.name = "startDrone"
    /\ lastCall.fading
    /\ ~lastCall.wasActive
    /\ lastCall.created = 4

\* C4: from stopDrone until its teardown timer fires, the target of the gain
\* node that the stopped bank's oscillators feed stays 0.
C4_FadingBankStaysSilent ==
    \A k \in 1..Len(teardownTimers) :
        \A o \in Range(teardownTimers[k]) :
            oscNodes[o].state = "running" => GainTarget(oscNodes[o].out) = 0

\* C13: setPitchBend(s) stores s and, if the drone is active, retargets the
\* oscillator at each position of the current bank to its ratio (1, 2, 3,
\* 1.5) times the frequency of tone droneBaseNote + s, creating and stopping
\* no oscillator and leaving every other oscillator as it was; if the drone
\* is inactive it only stores s.
C13_PitchBendRetunesBank ==
    [][ lastCall'.name = "setPitchBend" =>
          /\ pitchBend' = lastCall'.arg
          /\ UNCHANGED <<droneActive, droneOscillators, droneBaseNote,
                         droneTargetVolume, droneGainTarget, teardownTimers>>
          /\ Len(oscNodes') = Len(oscNodes)
          /\ \A o \in 1..Len(oscNodes) :
                /\ oscNodes'[o].state = oscNodes[o].state
                /\ oscNodes'[o].stops = oscNodes[o].stops
                /\ oscNodes'[o].gain = oscNodes[o].gain
                /\ (~droneActive \/ o \notin Range(droneOscillators))
                      => oscNodes'[o] = oscNodes[o]
          /\ droneActive =>
                \A i \in 1..Len(droneOscillators) :
                    /\ oscNodes'[droneOscillators[i]].tone
                          = droneBaseNote + lastCall'.arg
                    /\ oscNodes'[droneOscillators[i]].ratio2 = droneRatios2[i] ]_vars

\* a bend of 2 semitones arrived while a bank on base 7 was sounding and an
\* older bank was still fading out
C13_Witness ==
    /\ lastCall.name = "setPitchBend" /\ lastCall.arg = 2
    /\ lastCall.wasActive /\ lastCall.fading
    /\ droneBaseNote = 7
    /\ \A i \in 1..4 : oscNodes[droneOscillators[i]].tone = 9

\* C14: setDroneVolume(v) while the drone is inactive changes only the stored
\* droneTargetVolume; while it is active it also retargets the shared drone
\* gain to v; either way the bank, every oscillator and its gain, and
\* droneActive stay as they were.
C14_DroneVolumeFrame ==
    [][ lastCall'.name = "setDroneVolume" =>
          /\ droneTargetVolume' = lastCall'.arg
          /\ droneGainTarget' = IF droneActive THEN lastCall'.arg
                                ELSE droneGainTarget
          /\ UNCHANGED <<droneActive, droneOscillators, droneBaseNote, pitchBend,
                         oscNodes, teardownTimers>> ]_vars

\* a volume was set while the drone was off and its last bank was fading
\* out: the shared gain still heads for 0, the stored volume is the new one
C14_Witness ==
    /\ lastCall.name = "setDroneVolume" /\ lastCall.arg = 800
    /\ ~lastCall.wasActive /\ lastCall.fading
    /\ droneTargetVolume = 800 /\ droneGainTarget = 0

\* C20: the teardown callback scheduled by stopDrone never lets an error
\* out: when stop() fails on one oscillator of the captured bank, the failure
\* is swallowed and stop() is still called on every other oscillator of that
\* bank, so after the callback no oscillator of the bank is running.
C20_TeardownSwallowsErrors ==
    [][ lastCall'.name = "teardownTimer" =>
          /\ ~lastCall'.threw
          /\ teardownTimers # <<>>
          /\ \A o \in Range(Head(teardownTimers)) :
                /\ oscNodes'[o].state = "stopped"
                /\ oscNodes'[o].stops = oscNodes[o].stops + 1 ]_vars

\* a teardown whose stop() failed on the second oscillator of the bank has
\* run: the third and fourth were stopped all the same
C20_Witness ==
    /\ lastCall.name = "teardownTimer" /\ lastCall.arg = 2 /\ ~lastCall.threw
    /\ Len(oscNodes) >= 4
    /\ \A o \in 1..4 : oscNodes[o].state = "stopped" /\ oscNodes[o].stops = 1

----------------------------------------------------------------------------
(* Properties of HimalayanSynth's drone (SpecHDrone) *)

\* C5: startDrone calls made before the staggered timers have created any
\* voice yield one bank: with no stopDrone involved, once all timers have
\* fired droneVoices holds no voice or exactly the 4 of one bank.
C5_HStartDroneIdempotent ==
    (h_timers = <<>> /\ ~h_stopped) => Len(h_droneVoices) \in {0, 4}

\* C6: when stopDrone was the last drone operation to take effect, then once
\* all pending timers have fired droneVoices is empty and every drone voice
\* ever created has its stop scheduled.
C6_HStopSilencesAll ==
    (h_stopped /\ h_timers = <<>>) =>
        /\ h_droneVoices = <<>>
        /\ \A v \in 1..Len(h_voices) : h_voices[v].stopScheduled

----------------------------------------------------------------------------
(* Properties of the sequencer clocks (SpecSeq, SpecSeq2, SpecUiSeq) *)

\* C7: in the v2.0.0 UI sequencer and in HimalayanSynth's, intervalId is
\* non-null iff the sequencer is playing, exactly one interval timer is live
\* when it is playing and none when it is stopped, and the live timer runs at
\* the period computed from the current tempo.
C7_OneTimerIffPlaying ==
    /\ seq_playing <=> seq_intervalId # null
    /\ seq_timers = IF seq_playing
                    THEN {[id |-> seq_intervalId, period |-> Period(seq_tempo, 4)]}
                    ELSE {}
    /\ h_seqIsPlaying <=> h_seqIntervalId # null
    /\ h_seqTimers = IF h_seqIsPlaying
                     THEN {[id |-> h_seqIntervalId, period |-> Period(h_seqBpm, 2)]}
                     ELSE {}

\* both sequencers playing at a tempo other than the initial 120 BPM, the UI
\* one after ticks of the timer that is live now
C7_Witness ==
    /\ seq_playing /\ seq_tempo = 90 /\ seq_played = 15
    /\ Cardinality(seq_timers) = 1
    /\ h_seqIsPlaying /\ h_seqBpm = 90 /\ h_seqTicked
    /\ Cardinality(h_seqTimers) = 1

\* C8: with randomness = 0 the steps played after a start are 0, 1, 2, ...,
\* 15, 0, 1, ...: the first step played is 0 and every tick plays the step
\* after the one played before it, modulo 16.
C8_SequentialAtZeroRandomness ==
    [][ /\ (seq_randomness = 0 /\ seq_played' # None
                /\ seq_currentStep' # seq_currentStep)
            => seq_played' = (seq_played + 1) % 16
        /\ (h_seqIsPlaying' /\ ~h_seqTicked') => h_seqPlayed' = 0
        /\ (h_seqRandomness = 0 /\ h_seqIsPlaying' /\ h_seqTicked'
                /\ h_seqCurrentStep' # h_seqCurrentStep)
            => h_seqPlayed' = (h_seqPlayed + 1) % 16 ]_vars

\* both sequencers have wrapped around from step 15 to step 0
C8_Witness ==
    /\ seq_randomness = 0 /\ seq_playing /\ seq_played = 0 /\ seq_currentStep = 1
    /\ h_seqRandomness = 0 /\ h_seqIsPlaying /\ h_seqTicked /\ h_seqPlayed = 0

\* Math.ceil(randomness * 15)
C15_JumpRange == (h_seqRandomness * 15 + 999) \div 1000

\* C15: every advance of HimalayanSynth's sequencer keeps currentStep in
\* 0..15; with randomness = 0 the next step is (current+1) mod 16; with
\* 0 < randomness < 1 it is (current+1) mod 16 or (current+j) mod 16 for an
\* integer j with |j| <= ceil(randomness*15); with randomness >= 1 each of
\* the 16 steps is a possible next step.
C15_RandomJumpBounded ==
    [][ /\ h_seqCurrentStep' \in 0..15
        /\ (h_seqIsPlaying' /\ h_seqTicked' /\ h_seqCurrentStep' # h_seqCurrentStep)
              => /\ h_seqRandomness = 0
                      => h_seqCurrentStep' = (h_seqCurrentStep + 1) % 16
                 /\ (0 < h_seqRandomness /\ h_seqRandomness < 1000)
                      => \/ h_seqCurrentStep' = (h_seqCurrentStep + 1) % 16
                         \/ \E j \in -C15_JumpRange..C15_JumpRange :
                               h_seqCurrentStep' = (h_seqCurrentStep + j) % 16
        /\ (h_seqIsPlaying /\ h_seqRandomness >= 1000)
              => \A st \in Steps : \E r \in H_RandVals :
                    advanceSequencerStep(h_seqCurrentStep, h_seqRandomness, r, r) = st
      ]_vars

\* at randomness 0.2 a tick has just jumped back 3 steps across the wrap,
\* from step 1 to step 14
C15_Witness ==
    /\ h_seqIsPlaying /\ h_seqTicked /\ h_seqRandomness = 200
    /\ h_seqCurrentStep = 14 /\ h_seqPlayed = 14
    /\ \E r1 \in H_RandVals, r2 \in H_RandVals :
          /\ r1 < 200
          /\ advanceSequencerStep(1, 200, r1, r2) = 14

\* C9 as stated: in the v2.0.0 UI sequencer and in the part_002 engine the
\* step index is 0 immediately after stopSequencer returns.
C9_StopResetsStep ==
    [][ /\ (seq_playing /\ ~seq_playing') => seq_currentStep' = 0
        /\ (p_seqIsPlaying /\ ~p_seqIsPlaying') => p_seqCurrentStep' = 0 ]_vars

\* C9 amended: in both, stopSequencer leaves the step index where the last
\* tick put it, and it is startSequencer that resets it: the index is 0
\* immediately after the sequencer is started.
C9_StartResetsStep ==
    [][ /\ (seq_playing /\ ~seq_playing') => seq_currentStep' = seq_currentStep
        /\ (~seq_playing /\ seq_playing') => seq_currentStep' = 0
        /\ (p_seqIsPlaying /\ ~p_seqIsPlaying') => p_seqCurrentStep' = p_seqCurrentStep
        /\ (~p_seqIsPlaying /\ p_seqIsPlaying') => p_seqCurrentStep' = 0 ]_vars

\* both sequencers stopped part-way through the pattern
C9_Witness ==
    /\ ~seq_playing /\ seq_intervalId = null /\ seq_currentStep = 5
    /\ ~p_seqIsPlaying /\ p_seqIntervalId = null /\ p_seqCurrentStep = 5

clockFields == <<seq_playing, seq_currentStep, seq_tempo, seq_randomness,
                 seq_intervalId, seq_timers, seq_played, seq_triggered>>

\* C10: in the v2.0.0 UI sequencer a step that changes a pattern cell changes
\* no field of the clock: starting, stopping, a tempo or randomness change and
\* a tick (its note jitter and skip included) leave every pattern cell as it
\* was; only a step click or a note selection changes a cell.
C10_ClockKeepsPatterns ==
    [][ seq_patterns' # seq_patterns => UNCHANGED clockFields ]_vars

\* a tick played a jittered note and the cell still holds the stored one
C10_Witness ==
    \E c \in seq_triggered :
        /\ c.note # c.stored
        /\ seq_patterns[c.instrument][seq_played] = c.stored

----------------------------------------------------------------------------
(* Properties of the pattern editors (SpecEdit) *)

\* the note a click would store in a cell: its select's value, 0 if it has none
UiClickNote(c) == IF c.select # None THEN c.select ELSE 0

\* C11: a toggle of the cell that the previous edit toggled restores that
\* cell's active state and its note index, and a toggle changes no other
\* cell: HimalayanSynth.toggleSequencerStep restores the step record; the
\* step click handler of the v2.0.0 UI restores the pattern cell, the step's
\* 'active' class and the note a click stores, and touches no other step.
C11_ToggleTwiceRestores ==
    [][ /\ (h_lastEdit'.kind = "toggle" /\ h_lastEdit' # h_lastEdit)
              => \A i \in H_Instruments, st \in Steps :
                    (i # h_lastEdit'.instrument \/ st # h_lastEdit'.step)
                        => h_seqSteps'[i][st] = h_seqSteps[i][st]
        /\ (/\ h_lastEdit.kind = "toggle" /\ h_lastEdit'.kind = "toggle"
            /\ h_seqSteps' # h_seqSteps
            /\ h_lastEdit'.instrument = h_lastEdit.instrument
            /\ h_lastEdit'.step = h_lastEdit.step)
              => h_seqSteps'[h_lastEdit.instrument][h_lastEdit.step]
                    = h_lastEdit.before
        /\ (seq_lastEdit'.kind = "click" /\ seq_patterns' # seq_patterns)
              => \A i \in Instruments, st \in Steps :
                    (i # seq_lastEdit'.instrument \/ st # seq_lastEdit'.step)
                        => /\ seq_patterns'[i][st] = seq_patterns[i][st]
                           /\ seq_dom'[i][st] = seq_dom[i][st]
        /\ (/\ seq_lastEdit.kind = "click" /\ seq_lastEdit'.kind = "click"
            /\ seq_patterns' # seq_patterns
            /\ seq_lastEdit'.instrument = seq_lastEdit.instrument
            /\ seq_lastEdit'.step = seq_lastEdit.step)
              => LET c == UiCell(seq_lastEdit.instrument, seq_lastEdit.step)'
                     b == seq_lastEdit.before
                 IN /\ c.cell = b.cell
                    /\ c.active = b.active
                    /\ UiClickNote(c) = UiClickNote(b) ]_vars

\* both editors have just toggled a cell off and on again: the UI cell holds
\* note 6 once more, the HimalayanSynth step is active with its note 6
C11_Witness ==
    /\ seq_lastEdit.kind = "click"
    /\ seq_lastEdit.before.cell = None
    /\ seq_lastEdit.before.select = 6
    /\ UiCell(seq_lastEdit.instrument, seq_lastEdit.step).cell = 6
    /\ h_lastEdit.kind = "toggle"
    /\ h_lastEdit.instrument = "bowls" /\ h_lastEdit.step = 15
    /\ h_lastEdit.before = [noteIndex |-> 6, active |-> FALSE]
    /\ h_seqSteps["bowls"][15] = [noteIndex |-> 6, active |-> TRUE]

----------------------------------------------------------------------------
(* Properties of the v2.0.0 ambient textures (SpecTex) *)

\* what a setter call did to one texture, given the texture before and after
TexCreatedOrRetargeted(before, after, volume) ==
    IF before.node = null
    THEN IF volume > 0
         THEN /\ after.graphs = before.graphs + 1
              /\ after.node # null
              /\ after.gainNode = <<[value |-> volume, target |-> None]>>
         ELSE after = before
    ELSE /\ after.graphs = before.graphs
         /\ after.node = before.node
         /\ after.gainNode = <<[before.gainNode[1] EXCEPT !.target = volume]>>

\* C12: over any sequence of setWindVolume and setWaterVolume calls at most
\* one wind graph and at most one water graph are ever built; a texture is
\* built exactly at the first call for it with volume > 0, every later call
\* for it only retargets the existing gain, a call with volume 0 before
\* creation builds nothing, and a call for one texture leaves the other as
\* it was.
C12_OneGraphPerTexture ==
    [][ /\ windGraphs' <= 1 /\ waterGraphs' <= 1
        /\ tex_lastCall'.name = "setWindVolume" =>
              /\ TexCreatedOrRetargeted(Wind, Wind', tex_lastCall'.volume)
              /\ Water' = Water
        /\ tex_lastCall'.name = "setWaterVolume" =>
              /\ TexCreatedOrRetargeted(Water, Water', tex_lastCall'.volume)
              /\ Wind' = Wind ]_vars

\* both textures exist, each built once at its first positive volume and
\* retargeted since: wind to another positive volume, water to 0
C12_Witness ==
    /\ windGraphs = 1 /\ windGainNode = <<[value |-> 200, target |-> 1000]>>
    /\ waterGraphs = 1 /\ waterGainNode = <<[value |-> 500, target |-> 0]>>

----------------------------------------------------------------------------
(* Properties of the part_002 sequencer (SpecSeq2) *)

\* C16: in the part_002 engine, for every randomness value, each tick
\* advances the step pointer by exactly +1 modulo 16 and reports the pointer
\* it started from; the first tick after a start reports 0 and every later
\* tick reports the step after the one reported before it, so the k-th tick
\* reports (k-1) mod 16, whatever step the instruments' data was read from.
C16_PointerSequential ==
    [][ (p_seqReported' # None /\ p_seqCurrentStep' # p_seqCurrentStep) =>
          /\ p_seqCurrentStep' = (p_seqCurrentStep + 1) % 16
          /\ p_seqReported' = p_seqCurrentStep
          /\ p_seqReported' = IF p_seqReported = None THEN 0
                              ELSE (p_seqReported + 1) % 16 ]_vars

\* at randomness 1 the 16th tick read data from another step and reported
\* step 15; the pointer has wrapped to 0
C16_Witness ==
    /\ p_seqIsPlaying /\ p_seqRandomness = 1000
    /\ p_seqReadOther
    /\ p_seqReported = 15 /\ p_seqCurrentStep = 0

----------------------------------------------------------------------------
(* Properties of the voice triggers (SpecTrig) *)

\* C17: for every integer note index, negative and past the end of the
\* table included, the frequency computed for a triggered voice comes from
\* an entry of the scale table and is never undefined or NaN: getFrequency
\* (v2.0.0), getNoteFrequency (HimalayanSynth), playNote (part_002).
C17_FrequencyFromTable ==
    /\ (trig.op = "playInstrument" /\ trig.voice \notin {"none", "stick"})
          => /\ trig.freq.defined
             /\ trig.freq.base \in Range(scaleIntervals)
    /\ trig.op = "getNoteFrequency"
          => /\ trig.freq.defined
             /\ trig.freq.base \in Range(h_meditation)
    /\ (trig.op = "playNote" /\ trig.ready)
          => /\ trig.freq.defined
             /\ trig.freq.base \in Range(p_meditation)

C19_PreInitSilent ==
    /\ (~h_isInitialized /\ h_lastCall.name \in {"startDrone", "stopDrone"})
          => ~h_lastCall.threw
    /\ (trig.engine = "part_002" /\ trig.op \in {"playNote", "setWindVolume"}
          /\ ~trig.ready)
          => /\ ~trig.threw
             /\ trig.voice = "none"
             /\ ~p_windNode

----------------------------------------------------------------------------
(* Properties of the one-shot voices (SpecVoice) *)

\* C21: in a voice of the v2.0.0 engine every sound source reaches the
\* master filter through a gain stage that is at 0 when the source starts
\* sounding: the gain's setValueAtTime(0, ...) is scheduled no later than
\* the source's start (before it the gain holds its default 1).
C21_GainZeroAtTrigger ==
    \A k \in 1..Len(lastVoice.sources) :
        lastVoice.sources[k].gainAt <= lastVoice.sources[k].start

\* C22: every source of a one-shot voice ends by itself: each oscillator
\* (vibrato and modulation oscillators included) has a stop scheduled when
\* the voice is triggered, each noise source plays a finite buffer once,
\* and no source runs later than 4 s after the trigger.
C22_VoicesSelfTerminate ==
    \A k \in 1..Len(lastVoice.sources) :
        /\ lastVoice.sources[k].stop # None
        /\ lastVoice.sources[k].stop > lastVoice.sources[k].start
        /\ lastVoice.sources[k].stop <= 4000

\* the longest voice, the bowl, has been triggered: its first oscillator
\* runs the full 4 s
C22_Witness ==
    /\ lastVoice.instrument = "bowls"
    /\ Len(lastVoice.sources) = 3
    /\ lastVoice.sources[1].stop = 4000

\* C23: pitch bend and instrument volume are read once, when a voice is
\* triggered: a step that changes the v2.0.0 pitch bend or an instrument
\* volume leaves the voice triggered last as it was, and a step that
\* changes the HimalayanSynth pitch bend leaves every voice in activeVoices
\* (keyboard voices still held) as it was.
C23_SampledAtTrigger ==
    [][ /\ (pitchBend' # pitchBend \/ instrumentVolumes' # instrumentVolumes)
              => lastVoice' = lastVoice
        /\ h_pitchBend' # h_pitchBend => h_activeVoices' = h_activeVoices ]_vars

----------------------------------------------------------------------------
(* Properties of the sequencer clocks, continued (SpecSeq2) *)

\* C24: the timer of the v2.0.0 UI sequencer and of the part_002 sequencer
\* ticks every 60000 / (4 * bpm) ms for the tempo in force: period * 4 * bpm
\* = 60000 for every live timer, and the period is exactly 125 ms at 120 BPM.
C24_SixteenthNotePeriod ==
    /\ \A t \in seq_timers :
          /\ t.period[1] * 4 * seq_tempo = 60000 * t.period[2]
          /\ seq_tempo = 120 => t.period = <<125, 1>>
    /\ \A t \in p_seqTimers :
          /\ t.period[1] * 4 * p_seqBpm = 60000 * t.period[2]
          /\ p_seqBpm = 120 => t.period = <<125, 1>>

\* the UI sequencer runs at 120 BPM on a 125 ms timer while the part_002
\* sequencer, retimed to 90 BPM while playing, runs on a 500/3 ms timer
C24_Witness ==
    /\ seq_playing /\ seq_tempo = 120
    /\ \E t \in seq_timers : t.id = seq_intervalId /\ t.period = <<125, 1>>
    /\ p_seqIsPlaying /\ p_seqBpm = 90
    /\ \E t \in p_seqTimers : t.id = p_seqIntervalId /\ t.period = <<500, 3>>

----------------------------------------------------------------------------
(* Properties of the pitch wheel (SpecWheel) *)

\* C25: the pitch wheel springs back: while no drag is in progress and no
\* MIDI pitch-bend message has arrived since the last release, the engine's
\* pitch bend is 0, and the release that put it there has retuned the
\* active drone to its base note.
C25_WheelSpringsBack ==
    (~isDragging /\ ~midiBendSince)
        => /\ pitchBend = 0
           /\ (lastCall.name = "setPitchBend" /\ droneActive)
                 => \A i \in 1..Len(droneOscillators) :
                       /\ oscNodes[droneOscillators[i]].tone = droneBaseNote
                       /\ ~oscNodes[droneOscillators[i]].detuned

\* a drag over a sounding drone has ended: the release called
\* setPitchBend(0) and the bank is retuned to the base note
C25_Witness ==
    /\ ~isDragging /\ ~midiBendSince
    /\ lastCall.name = "setPitchBend" /\ lastCall.arg = 0
    /\ droneActive /\ Len(droneOscillators) = 4
    /\ droneBaseNote = 7
    /\ \A i \in 1..4 : oscNodes[droneOscillators[i]].tone = 7

----------------------------------------------------------------------------
(* Properties of the expression pads (SpecPad) *)

\* the filter cutoff the last pad event set
C26_Cutoff ==
    CASE pad.ui = "v2" -> expr_v2.filter
      [] pad.ui = "himalayan" -> expr_h.filter
      [] OTHER -> expr_p.filter

\* C26: in every variant the pad maps x = 0 to a cutoff of 200 Hz and x = 1
\* to 8000 Hz, every position into 200..8000, and a larger x never to a
\* smaller cutoff.
C26_PadCutoffRange ==
    /\ pad.ui # "none"
          => /\ C26_Cutoff \in 200..8000
             /\ pad.x = 0 => C26_Cutoff = 200
             /\ pad.x = 1000 => C26_Cutoff = 8000
    /\ \A x1, x2 \in PadPositions :
          x1 <= x2 => /\ updateFromPosition(x1, 0).filter <= updateFromPosition(x2, 0).filter
                      /\ updateExpression(x1, 0).filter <= updateExpression(x2, 0).filter
                      /\ updateXY(x1, 0).filter <= updateXY(x2, 0).filter

----------------------------------------------------------------------------
(* Properties of the v2.0.0 drone, continued (SpecDrone) *)

\* the pending teardown timers that captured oscillator o
C27_TimersHolding(o) ==
    {k \in 1..Len(teardownTimers) : o \in Range(teardownTimers[k])}

\* C27: a teardown timer stops exactly the bank its stopDrone captured: an
\* oscillator of the current bank is running and was never stopped, however
\* many older timers have fired since it was started; an oscillator of a
\* stopped bank is held by exactly one pending timer until that timer has
\* stopped it, once; and when the drone is stopped and no timer is pending
\* every oscillator startDrone ever created has been stopped exactly once.
C27_TeardownStopsItsBank ==
    /\ \A o \in 1..Len(oscNodes) :
          IF o \in Range(droneOscillators)
          THEN /\ oscNodes[o].state = "running" /\ oscNodes[o].stops = 0
               /\ C27_TimersHolding(o) = {}
          ELSE \/ /\ Cardinality(C27_TimersHolding(o)) = 1
                  /\ oscNodes[o].state = "running" /\ oscNodes[o].stops = 0
               \/ /\ C27_TimersHolding(o) = {}
                  /\ oscNodes[o].state = "stopped" /\ oscNodes[o].stops = 1
    /\ (~droneActive /\ teardownTimers = <<>>)
          => \A o \in 1..Len(oscNodes) : oscNodes[o].stops = 1

\* stop, start, stop again, then the first timer fires: it has stopped the
\* first bank only, and the second bank waits for its own timer
C27_Witness ==
    /\ lastCall.name = "teardownTimer"
    /\ ~droneActive
    /\ Len(oscNodes) = 8
    /\ Len(teardownTimers) = 1
    /\ \A o \in 1..4 : oscNodes[o].stops = 1
    /\ \A o \in 5..8 : oscNodes[o].stops = 0 /\ C27_TimersHolding(o) = {1}

\* C28: while the drone is active, every oscillator of the current bank is
\* tuned to droneBaseNote + pitchBend semitones above C2.
C28_ToneIsBasePlusBend ==
    droneActive =>
        \A i \in 1..Len(droneOscillators) :
            oscNodes[droneOscillators[i]].tone = droneBaseNote + pitchBend

----------------------------------------------------------------------------
(* Properties of the drone under its UI (SpecDroneUi) *)

\* the engine's side: the flag agrees with the bank, and toggleDrone has
\* returned the flag's new value
C29_FlagAgreesWithBank ==
    /\ droneActive <=> Len(droneOscillators) = 4
    /\ ~droneActive <=> droneOscillators = <<>>
    /\ lastCall.name = "toggleDrone" => lastCall.ret = droneActive

\* C29: droneActive is true iff droneOscillators holds exactly 4 entries
\* and false iff it is empty; toggleDrone returns the new droneActive; and
\* the drone button shows 'active' iff the engine's drone is active.
C29_ActiveIffBank ==
    /\ C29_FlagAgreesWithBank
    /\ droneBtnActive <=> droneActive

\* the button has been clicked on and off and on again: the second bank is
\* current, the button is lit
C29_Witness ==
    /\ lastCall.name = "toggleDrone" /\ lastCall.ret
    /\ droneActive /\ droneBtnActive
    /\ Len(oscNodes) = 8
    /\ droneOscillators = <<5, 6, 7, 8>>

----------------------------------------------------------------------------
(* Properties of the v2.0.0 UI sequencer, continued (SpecUiSeq) *)

\* C30: every note index a tick of the UI sequencer passes to
\* playInstrument lies in 0..6 and differs from the note stored in the cell
\* by at most 1.
C30_JitterWithinOne ==
    \A c \in seq_triggered :
        /\ c.note \in 0..6
        /\ c.note - c.stored \in {-1, 0, 1}

\* at full randomness one tick has played a cell holding 6 a step lower,
\* and a tick has played a cell holding 0 a step higher
C30_Witness ==
    /\ seq_randomness = 1000
    /\ \E c \in seq_triggered :
          \/ c.stored = 6 /\ c.note = 5
          \/ c.stored = 0 /\ c.note = 1

\* C31: with randomness = 0 a tick of the UI sequencer triggers
\* playInstrument for every instrument whose cell at the ticked step is
\* non-null, with the stored note index, whatever Math.random() returns:
\* nothing is skipped and nothing is jittered.
C31_ZeroRandomnessPlaysAll ==
    [][ (seq_randomness = 0 /\ seq_played' = seq_currentStep
            /\ seq_currentStep' # seq_currentStep)
          => seq_triggered' =
                {[instrument |-> i, stored |-> seq_patterns[i][seq_currentStep],
                  note |-> seq_patterns[i][seq_currentStep]] :
                    i \in {j \in Instruments :
                             seq_patterns[j][seq_currentStep] # None}} ]_vars

----------------------------------------------------------------------------
(* Properties of the MIDI handlers (SpecMidi, SpecWheel) *)

\* the mapping documented in handleMIDINoteOn, as <<MIDI note, scale index>>
C32_Documented ==
    {<<60, 0>>, <<63, 1>>, <<65, 2>>, <<67, 3>>, <<70, 4>>, <<72, 5>>, <<75, 6>>}

\* C32: a MIDI note-on for one of the notes 60, 63, 65, 67, 70, 72, 75 is
\* played at scale index 0, 1, 2, 3, 4, 5, 6 respectively, and every MIDI
\* note 0..127 maps to an index in 0..6.
C32_MidiNoteMapping ==
    /\ \A d \in C32_Documented : lastNoteOn.note = d[1] => lastNoteOn.noteIndex = d[2]
    /\ \A n \in 0..127 : midiNoteToScaleIndex(n) \in 0..6

\* C33: handling a MIDI note-on triggers the voice at the instrument's
\* volume scaled by velocity / 127 and leaves every entry of
\* instrumentVolumes as it was before the message.
C33_NoteOnRestoresVolume ==
    [][ lastNoteOn' # lastNoteOn
          => /\ instrumentVolumes' = instrumentVolumes
             /\ lastVoice'.instrument = lastNoteOn'.instrument
             /\ lastVoice'.volume =
                   (instrumentVolumes[lastNoteOn'.instrument] * lastNoteOn'.velocity)
                       \div 127 ]_vars

\* a note at velocity 64 on channel 7 ('stick', volume 0.6) sounded at
\* 0.302 and the volume is 0.6 again
C33_Witness ==
    /\ lastNoteOn.velocity = 64 /\ lastNoteOn.instrument = "stick"
    /\ lastNoteOn.volumeWas = 600
    /\ lastVoice.instrument = "stick" /\ lastVoice.volume = 302
    /\ instrumentVolumes["stick"] = 600

\* C34: after any sequence of pitch-wheel drags, releases and MIDI
\* pitch-bend messages the engine's pitch bend lies in [-2, 2] semitones:
\* the stored value is in -2..2, and the 14-bit value v a MIDI message put
\* behind it satisfies -2 <= (v - 8192) * 2 / 8192 <= 2 exactly.
C34_PitchBendBounded ==
    /\ pitchBend \in -2..2
    /\ midiBend14 # None
          => /\ (midiBend14 - 8192) * 2 >= -2 * 8192
             /\ (midiBend14 - 8192) * 2 <= 2 * 8192
             /\ pitchBend = midiSemitones(midiBend14)

\* the highest MIDI pitch bend (data bytes 127, 127) has arrived during a
\* drag: 16383 stands behind a bend just under 2 semitones
C34_Witness ==
    /\ midiBend14 = 16383 /\ midiBendSince /\ isDragging
    /\ lastCall.name = "setPitchBend"
    /\ pitchBend = 1

----------------------------------------------------------------------------
(* Properties of engine initialisation (SpecInit) *)

\* C35: init is idempotent under overlap: in HimalayanSynth and in the
\* part_002 engine a second init made while an earlier one is suspended at
\* its await is a no-op, so at most one audio context (and master chain)
\* is ever created.
C35_OneContext ==
    /\ h_audioContexts <= 1
    /\ p_audioContexts <= 1

====
